---- MODULE Spec2Model ----
(***************************************************************************)
(* Model of the rustis network handler (src/network/network_handler.rs):   *)
(* one task owning one connection, fed by an unbounded submission channel, *)
(* pipelining writes, demultiplexing replies, tracking pub/sub and monitor *)
(* mode, and reconnecting with command retry.                              *)
(*                                                                         *)
(* Option<T> values are modelled as sequences of length 0 (None) or 1      *)
(* (Some(x)); HashMaps as functions whose DOMAIN is the key set.           *)
(***************************************************************************)
EXTENDS Integers, Sequences, FiniteSets, TLC

\* ------------------------------------------------------------------------
\* Bounds of the model
\* ------------------------------------------------------------------------
MaxMsgs == 3          \* submissions made by callers in one execution
MaxFewMsgs == 2       \* the same, where two messages show the case
MaxFrames == 6        \* frames read from the transport in one execution
MaxAsync == 2         \* unsolicited frames (pub/sub messages, monitor lines)
MaxDisconnects == 2   \* end-of-stream events of the transport
MaxDrops == 1         \* the same, where one reconnect shows the case
MaxRetries == 2       \* replies the transport turns into Err(Retry) or Err
MaxRedirects == 1     \* the same, where one redirect shows the case
MaxAttempts == 2      \* max_command_attempts of the configuration
MaxDroppedReceivers == 2  \* receivers the callers drop
MaxLoneMsgs == 1      \* the same as MaxMsgs, where one message shows the case

Names == {"a", "b"}   \* channel / pattern names

\* ------------------------------------------------------------------------
\* State
\* ------------------------------------------------------------------------
VARIABLES
    \* NetworkHandler fields
    status, messages_to_send, messages_to_receive,
    pending_subscriptions, pending_unsubscriptions, subscriptions,
    is_reply_on, push_sender, pending_replies,
    auto_resubscribe, auto_remonitor, max_command_attempts,
    \* the submission channel (msg_sender / msg_receiver) and the task
    msg_channel, running,
    \* what callers observe
    replies,        \* per message id: results received on its reply sink
    pubsub_log,     \* per message id: frames received on its pub/sub sink
    push_log,       \* per message id: frames received on its push sink
    notifications,  \* number of broadcasts on reconnect_sender
    dropped,        \* receivers the callers have dropped: <<kind of sink, message id>>
    callers_hold,   \* some caller still holds a sender of the submission channel
    \* the transport and the server behind it
    wire,           \* commands handed to the connection, oldest first
    write_reasons,  \* retry reasons passed to the last write_batch
    conn,           \* number of the current connection
    link_up,        \* the current connection can still yield data frames
    srv_out,        \* frames the server still owes on this connection
    srv_subs,       \* names the server holds a subscription for
    srv_reply,      \* server side CLIENT REPLY mode: "on", "off", "skip"
    srv_monitor,    \* the stream is between the answers to MONITOR and RESET
    \* history
    enqueued_in,    \* per message id: the status when handle_message queued it
    link_lost_in,   \* the status the handler had when the link last dropped
    submitted,      \* the messages submitted so far, by id
    next_id, nframes, last_frame, nasync, disconnects, nretries

handler_vars == <<status, messages_to_send, messages_to_receive,
                  pending_subscriptions, pending_unsubscriptions, subscriptions,
                  is_reply_on, push_sender, pending_replies, msg_channel, running>>
config_vars == <<auto_resubscribe, auto_remonitor, max_command_attempts>>
caller_vars == <<replies, pubsub_log, push_log, notifications>>
server_vars == <<wire, write_reasons, conn, link_up, srv_out, srv_subs, srv_reply, srv_monitor>>
receiver_vars == <<dropped, callers_hold>>
trace_vars == <<enqueued_in, link_lost_in>>
history_vars == <<submitted, next_id, nframes, last_frame, nasync, disconnects, nretries>>
vars == <<handler_vars, config_vars, caller_vars, receiver_vars, server_vars, trace_vars,
          history_vars>>

None == <<>>
Some(x) == <<x>>
IsSome(o) == Len(o) = 1
Unwrap(o) == o[1]

EmptyMap == [x \in {} |-> 0]
Ids == 1..(MaxMsgs + MaxFewMsgs)

\* ------------------------------------------------------------------------
\* Commands and messages
\* ------------------------------------------------------------------------
cmd(name, args) == [name |-> name, args |-> args]

GET == cmd("GET", <<"k">>)
SET == cmd("SET", <<"k", "1">>)
INCR == cmd("INCR", <<"k">>)
MONITOR == cmd("MONITOR", <<>>)
RESET == cmd("RESET", <<>>)
ClientReply(mode) == cmd("CLIENT", <<"REPLY", mode>>)
ClientSetName == cmd("CLIENT", <<"SETNAME", "x">>)

SubscribeNames == {"SUBSCRIBE", "PSUBSCRIBE", "SSUBSCRIBE"}
UnsubscribeNames == {"UNSUBSCRIBE", "PUNSUBSCRIBE", "SUNSUBSCRIBE"}

\* Message envelopes as the client facade builds them; id names the sinks.
Single(c, has_sink, retry) ==
    [id |-> 0, kind |-> "Single", cmds |-> <<c>>, sink |-> has_sink,
     pub_sub_senders |-> None, push_sender |-> FALSE,
     retry_on_error |-> retry, retry_reasons |-> None]

Batch(cs, retry) ==
    [id |-> 0, kind |-> "Batch", cmds |-> cs, sink |-> TRUE,
     pub_sub_senders |-> None, push_sender |-> FALSE,
     retry_on_error |-> retry, retry_reasons |-> None]

PubSub(c, retry) ==
    [id |-> 0, kind |-> "Single", cmds |-> <<c>>, sink |-> TRUE,
     pub_sub_senders |-> Some({c.args[i] : i \in 1..Len(c.args)}), push_sender |-> FALSE,
     retry_on_error |-> retry, retry_reasons |-> None]

Monitor(c, retry) ==
    [id |-> 0, kind |-> "Single", cmds |-> <<c>>, sink |-> TRUE,
     pub_sub_senders |-> None, push_sender |-> TRUE,
     retry_on_error |-> retry, retry_reasons |-> None]

HasSink(m) == m.kind = "Batch" \/ (m.kind = "Single" /\ m.sink)

MessageToSend(m) == [message |-> m, attempts |-> 0]
MessageToReceive(m, n, a) == [message |-> m, num_commands |-> n, attempts |-> a]

\* ------------------------------------------------------------------------
\* Frames and results
\* ------------------------------------------------------------------------
\* kind: "reply", "push", "monitor", "message", "smessage", "pmessage",
\*       "subscribe", "psubscribe", "ssubscribe",
\*       "unsubscribe", "punsubscribe", "sunsubscribe",
\*       and for Err results of read(): "retry", "error"; "eof" is read() = None.
\* n is the position of the frame in the transport's output (0: synthetic).
Frame(kind, name, n) == [kind |-> kind, name |-> name, resp3 |-> FALSE, n |-> n]
NoFrame == Frame("none", "", 0)
\* a RESP3 out-of-band push frame ('>' prefix)
PushFrame(n) == [Frame("push", "", n) EXCEPT !.resp3 = TRUE]
RespBufOk == Frame("reply", "OK", 0)

MessageKinds == {"message", "smessage", "pmessage"}
SubscribeKinds == {"subscribe", "psubscribe", "ssubscribe"}
UnsubscribeKinds == {"unsubscribe", "punsubscribe", "sunsubscribe"}
PubSubKinds == MessageKinds \cup SubscribeKinds \cup UnsubscribeKinds

is_err(f) == f.kind \in {"retry", "error"}
is_ok(f) == ~is_err(f)
is_push_message(f) == is_ok(f) /\ f.resp3
is_pub_sub_message(f) == f.kind \in PubSubKinds
is_monitor_message(f) == f.kind = "monitor"

\* Results delivered on reply sinks.
Ok(v) == [ok |-> TRUE, e |-> "", v |-> v]
Err(e) == [ok |-> FALSE, e |-> e, v |-> <<>>]
ResultOf(f) == IF f.kind = "retry" THEN [ok |-> FALSE, e |-> "Retry", v |-> <<f>>]
               ELSE IF f.kind = "error" THEN [ok |-> FALSE, e |-> "Error", v |-> <<f>>]
               ELSE Ok(<<f>>)
Disconnected == Err("Disconnected from server")
WriteError == Err("Write")

\* ------------------------------------------------------------------------
\* The handler state as one record, for the sequential code of a handler
\* ------------------------------------------------------------------------
Pack ==
    [status |-> status, messages_to_send |-> messages_to_send,
     messages_to_receive |-> messages_to_receive,
     pending_subscriptions |-> pending_subscriptions,
     pending_unsubscriptions |-> pending_unsubscriptions,
     subscriptions |-> subscriptions, is_reply_on |-> is_reply_on,
     push_sender |-> push_sender, pending_replies |-> pending_replies,
     msg_channel |-> msg_channel, running |-> running,
     replies |-> replies, pubsub_log |-> pubsub_log, push_log |-> push_log,
     notifications |-> notifications, wire |-> wire, write_reasons |-> write_reasons,
     conn |-> conn, link_up |-> link_up, srv_out |-> srv_out, srv_subs |-> srv_subs,
     srv_reply |-> srv_reply, srv_monitor |-> srv_monitor,
     enqueued_in |-> enqueued_in, link_lost_in |-> link_lost_in,
     dropped |-> dropped, callers_hold |-> callers_hold,
     nframes |-> nframes]

Unpack(s) ==
    /\ status' = s.status
    /\ messages_to_send' = s.messages_to_send
    /\ messages_to_receive' = s.messages_to_receive
    /\ pending_subscriptions' = s.pending_subscriptions
    /\ pending_unsubscriptions' = s.pending_unsubscriptions
    /\ subscriptions' = s.subscriptions
    /\ is_reply_on' = s.is_reply_on
    /\ push_sender' = s.push_sender
    /\ pending_replies' = s.pending_replies
    /\ msg_channel' = s.msg_channel
    /\ running' = s.running
    /\ replies' = s.replies
    /\ pubsub_log' = s.pubsub_log
    /\ push_log' = s.push_log
    /\ notifications' = s.notifications
    /\ wire' = s.wire
    /\ write_reasons' = s.write_reasons
    /\ conn' = s.conn
    /\ link_up' = s.link_up
    /\ srv_out' = s.srv_out
    /\ srv_subs' = s.srv_subs
    /\ srv_reply' = s.srv_reply
    /\ srv_monitor' = s.srv_monitor
    /\ enqueued_in' = s.enqueued_in
    /\ link_lost_in' = s.link_lost_in
    /\ dropped' = s.dropped
    /\ callers_hold' = s.callers_hold

\* the receiving half of a sink still exists; send returns Err otherwise
alive(s, kind, id) == <<kind, id>> \notin s.dropped

\* (variant: a send that fails ends the task)
deliver_or_stop(s, m, r) ==
    IF ~HasSink(m) THEN s
    ELSE IF alive(s, "reply", m.id) THEN [s EXCEPT !.replies[m.id] = Append(@, r)]
    ELSE [s EXCEPT !.running = "panicked"]

\* result_sender.send(r): a oneshot / unbounded send to the sink of message id
deliver(s, m, r) ==
    IF HasSink(m) /\ alive(s, "reply", m.id)
    THEN [s EXCEPT !.replies[m.id] = Append(@, r)]
    ELSE s

\* ------------------------------------------------------------------------
\* The server behind the connection (Redis semantics of the commands the
\* handler recognises): what it owes after a command is written
\* ------------------------------------------------------------------------
SubscribeKindOf(name) ==
    CASE name \in {"SUBSCRIBE", "UNSUBSCRIBE"} -> "subscribe"
      [] name \in {"PSUBSCRIBE", "PUNSUBSCRIBE"} -> "psubscribe"
      [] name \in {"SSUBSCRIBE", "SUNSUBSCRIBE"} -> "ssubscribe"

UnsubscribeKindOf(name) ==
    CASE name = "UNSUBSCRIBE" -> "unsubscribe"
      [] name = "PUNSUBSCRIBE" -> "punsubscribe"
      [] name = "SUNSUBSCRIBE" -> "sunsubscribe"

RECURSIVE confirmations(_, _, _)
confirmations(kind, args, i) ==
    IF i > Len(args) THEN <<>>
    ELSE <<Frame(kind, args[i], 0)>> \o confirmations(kind, args, i + 1)

ArgSet(c) == {c.args[i] : i \in 1..Len(c.args)}

\* the order in which the server walks its channels
ServerOrder == <<"a", "b">>

\* the names an unsubscribe command is confirmed for: its arguments or, when
\* it has none, every name of that type the connection is subscribed to; the
\* server confirms once, for no name, when there is none
unsubscribed(s, c) ==
    LET all == SelectSeq(ServerOrder, LAMBDA n : <<SubscribeKindOf(c.name), n>> \in s.srv_subs)
    IN  IF Len(c.args) > 0 THEN c.args ELSE IF Len(all) > 0 THEN all ELSE <<"">>

\* The server executes one command: c is answered unless replies are off or skipped.
server_execute(s, c) ==
    LET is_reply_cmd == c.name = "CLIENT" /\ Len(c.args) >= 2 /\ c.args[1] = "REPLY"
        mode == s.srv_reply
        answered == mode = "on"
        after == IF mode = "skip" THEN "on" ELSE mode
        owe(frames) == IF answered THEN s.srv_out \o frames ELSE s.srv_out
    IN  IF is_reply_cmd /\ c.args[2] = "OFF" THEN [s EXCEPT !.srv_reply = "off"]
        ELSE IF is_reply_cmd /\ c.args[2] = "SKIP" THEN [s EXCEPT !.srv_reply = "skip"]
        ELSE IF is_reply_cmd /\ c.args[2] = "ON" THEN
            [s EXCEPT !.srv_reply = "on", !.srv_out = Append(@, Frame("reply", "", 0))]
        ELSE IF c.name \in SubscribeNames THEN
            [s EXCEPT !.srv_reply = after,
                      !.srv_subs = @ \cup {<<SubscribeKindOf(c.name), a>> : a \in ArgSet(c)},
                      !.srv_out = owe(confirmations(SubscribeKindOf(c.name), c.args, 1))]
        ELSE IF c.name \in UnsubscribeNames THEN
            [s EXCEPT !.srv_reply = after,
                      !.srv_subs = @ \ {<<SubscribeKindOf(c.name), unsubscribed(s, c)[k]>> :
                                            k \in 1..Len(unsubscribed(s, c))},
                      !.srv_out = owe(confirmations(UnsubscribeKindOf(c.name),
                                                    unsubscribed(s, c), 1))]
        ELSE IF c.name = "MONITOR" THEN
            [s EXCEPT !.srv_reply = after,
                      !.srv_out = owe(<<Frame("reply", "MONITOR", 0)>>)]
        ELSE IF c.name = "RESET" THEN
            [s EXCEPT !.srv_reply = "on", !.srv_subs = {},
                      !.srv_out = Append(@, Frame("reply", "RESET", 0))]
        ELSE
            [s EXCEPT !.srv_reply = after, !.srv_out = owe(<<Frame("reply", "", 0)>>)]

\* One entry of the wire log: command c of message id (0: issued by the
\* handler itself during a reconnect) handed to the connection after `at`
\* frames were read; counted = the handler expects a reply for it; ok = the
\* write succeeded.
WireEntry(s, id, c, counted, ok) ==
    [conn |-> s.conn, id |-> id, name |-> c.name, args |-> c.args,
     counted |-> counted, ok |-> ok, at |-> s.nframes, notified |-> s.notifications]

\* ------------------------------------------------------------------------
\* send_messages
\* ------------------------------------------------------------------------
\* (variant: CLIENT REPLY ON is not recognised)
client_reply_no_on(c, on) ==
    IF c.name = "CLIENT" /\ Len(c.args) >= 2 /\ c.args[1] = "REPLY"
    THEN CASE c.args[2] = "OFF" -> FALSE
           [] c.args[2] = "SKIP" -> FALSE
           [] OTHER -> on
    ELSE on

\* CLIENT REPLY detection: the value of is_reply_on after command c
client_reply(c, on) ==
    IF c.name = "CLIENT" /\ Len(c.args) >= 2 /\ c.args[1] = "REPLY"
    THEN CASE c.args[2] = "OFF" -> FALSE
           [] c.args[2] = "SKIP" -> FALSE
           [] c.args[2] = "ON" -> TRUE
           [] OTHER -> on
    ELSE on

\* The inner loop over the commands of one message.
\* acc = [on: is_reply_on, n: num_commands_to_receive, flags: per command]
RECURSIVE count_commands(_, _, _)
count_commands(cmds, i, acc) ==
    IF i > Len(cmds) THEN acc
    ELSE LET on == client_reply(cmds[i], acc.on)
         IN  count_commands(cmds, i + 1,
                [on |-> on, n |-> acc.n + (IF on THEN 1 ELSE 0),
                 flags |-> Append(acc.flags, on)])

\* The outer loop over messages_to_send.
\* acc = [on, counts: commands_to_receive, flags: per message, reasons: retry_reasons]
RECURSIVE scan_messages(_, _, _)
scan_messages(q, i, acc) ==
    IF i > Len(q) THEN acc
    ELSE LET m == q[i].message
             r == count_commands(m.cmds, 1, [on |-> acc.on, n |-> 0, flags |-> <<>>])
         IN  scan_messages(q, i + 1,
                [on |-> r.on, counts |-> Append(acc.counts, r.n),
                 flags |-> Append(acc.flags, r.flags),
                 reasons |-> acc.reasons \o
                    (IF IsSome(m.retry_reasons) THEN Unwrap(m.retry_reasons) ELSE <<>>)])

\* msg.retry_reasons.take() on every queued message
take_reasons(q) == [i \in 1..Len(q) |-> [q[i] EXCEPT !.message.retry_reasons = None]]

\* connection.write_batch: the commands are handed to the connection in
\* order and, when the write succeeds, reach the server
RECURSIVE write_commands(_, _, _, _, _, _)
write_commands(s, q, flags, i, j, ok) ==
    IF i > Len(q) THEN s
    ELSE IF j > Len(q[i].message.cmds) THEN write_commands(s, q, flags, i + 1, 1, ok)
    ELSE LET c == q[i].message.cmds[j]
             s1 == IF ok THEN server_execute(s, c) ELSE s
         IN  write_commands(
                [s1 EXCEPT !.wire = Append(@, WireEntry(s, q[i].message.id, c, flags[i][j], ok))],
                q, flags, i, j + 1, ok)

\* write error: every drained message that expects replies gets the error
RECURSIVE fail_messages(_, _, _, _)
fail_messages(s, q, counts, i) ==
    IF i > Len(q) THEN s
    ELSE fail_messages(
            IF counts[i] > 0 THEN deliver(s, q[i].message, WriteError) ELSE s,
            q, counts, i + 1)

\* (variant: the entries are pushed at the front instead of the back)
RECURSIVE to_receive_lifo(_, _, _)
to_receive_lifo(q, counts, i) ==
    IF i > Len(q) THEN <<>>
    ELSE to_receive_lifo(q, counts, i + 1) \o
         (IF counts[i] > 0
          THEN <<MessageToReceive(q[i].message, counts[i], q[i].attempts)>>
          ELSE <<>>)

\* (variant: messages without a reply sink are dropped after the write)
RECURSIVE to_receive_with_sink(_, _, _)
to_receive_with_sink(q, counts, i) ==
    IF i > Len(q) THEN <<>>
    ELSE (IF counts[i] > 0 /\ HasSink(q[i].message)
          THEN <<MessageToReceive(q[i].message, counts[i], q[i].attempts)>>
          ELSE <<>>) \o to_receive_with_sink(q, counts, i + 1)

\* write success: messages expecting replies move to messages_to_receive
RECURSIVE to_receive(_, _, _)
to_receive(q, counts, i) ==
    IF i > Len(q) THEN <<>>
    ELSE (IF counts[i] > 0
          THEN <<MessageToReceive(q[i].message, counts[i], q[i].attempts)>>
          ELSE <<>>) \o to_receive(q, counts, i + 1)

\* (variant: a write that fails leaves the messages queued)
send_messages_keeping(s, write_ok) ==
    LET scan == scan_messages(s.messages_to_send, 1,
                    [on |-> s.is_reply_on, counts |-> <<>>, flags |-> <<>>, reasons |-> <<>>])
        q == take_reasons(s.messages_to_send)
        s1 == [s EXCEPT !.is_reply_on = scan.on, !.write_reasons = scan.reasons]
        s2 == write_commands(s1, q, scan.flags, 1, 1, write_ok)
    IN  IF write_ok
        THEN [s2 EXCEPT !.messages_to_send = <<>>,
                        !.messages_to_receive = @ \o to_receive(q, scan.counts, 1)]
        ELSE [s2 EXCEPT !.link_up = IF Len(q) > 0 THEN FALSE ELSE @]

send_messages(s, write_ok) ==
    LET scan == scan_messages(s.messages_to_send, 1,
                    [on |-> s.is_reply_on, counts |-> <<>>, flags |-> <<>>, reasons |-> <<>>])
        q == take_reasons(s.messages_to_send)
        s1 == [s EXCEPT !.is_reply_on = scan.on,
                        !.write_reasons = scan.reasons,
                        !.messages_to_send = <<>>]
        s2 == write_commands(s1, q, scan.flags, 1, 1, write_ok)
    IN  IF write_ok
        THEN [s2 EXCEPT !.messages_to_receive = @ \o to_receive(q, scan.counts, 1)]
        ELSE [fail_messages(s2, q, scan.counts, 1) EXCEPT
                !.link_up = IF Len(q) > 0 THEN FALSE ELSE @]

\* ------------------------------------------------------------------------
\* handle_message
\* ------------------------------------------------------------------------
SubscriptionType(name) ==
    CASE name \in {"SUBSCRIBE", "UNSUBSCRIBE"} -> "Channel"
      [] name \in {"PSUBSCRIBE", "PUNSUBSCRIBE"} -> "Pattern"
      [] name \in {"SSUBSCRIBE", "SUNSUBSCRIBE"} -> "ShardChannel"

\* status after the commands of a message are inspected in Connected status
RECURSIVE connected_status(_, _, _)
connected_status(cmds, i, st) ==
    IF i > Len(cmds) THEN st
    ELSE connected_status(cmds, i + 1,
            IF cmds[i].name \in SubscribeNames THEN "Subscribing"
            ELSE IF cmds[i].name = "MONITOR" THEN "EnteringMonitor"
            ELSE st)

\* the sets pushed on pending_unsubscriptions in Subscribed status
RECURSIVE unsubscriptions(_, _)
unsubscriptions(cmds, i) ==
    IF i > Len(cmds) THEN <<>>
    ELSE (IF cmds[i].name \in UnsubscribeNames
          THEN <<[n \in ArgSet(cmds[i]) |-> SubscriptionType(cmds[i].name)]>>
          ELSE <<>>) \o unsubscriptions(cmds, i + 1)

\* status after the commands of a message are inspected in Monitor status
monitor_status(cmds) ==
    IF \E i \in 1..Len(cmds) : cmds[i].name = "RESET" THEN "LeavingMonitor" ELSE "Monitor"

\* the body of the loop for one message taken from the channel
enqueue_message(s, msg) ==
    LET bad_pub_sub == IsSome(msg.pub_sub_senders)
                       /\ ~(msg.kind = "Single" /\ msg.cmds[1].name \in SubscribeNames)
        pending == IF IsSome(msg.pub_sub_senders)
                   THEN [n \in Unwrap(msg.pub_sub_senders) |->
                            [type |-> SubscriptionType(msg.cmds[1].name), sink |-> msg.id]]
                        @@ s.pending_subscriptions
                   ELSE s.pending_subscriptions
        m == [msg EXCEPT !.pub_sub_senders = None, !.push_sender = FALSE]
        s1 == [s EXCEPT !.pending_subscriptions = pending,
                        !.enqueued_in[msg.id] = s.status,
                        !.push_sender = IF msg.push_sender THEN Some(msg.id) ELSE @,
                        !.messages_to_send = Append(@, MessageToSend(m))]
    IN  IF bad_pub_sub THEN [s EXCEPT !.running = "panicked"]
        ELSE CASE s.status = "Connected" ->
                    [s1 EXCEPT !.status = connected_status(m.cmds, 1, "Connected")]
               [] s.status = "Subscribed" ->
                    [s1 EXCEPT !.pending_unsubscriptions = @ \o unsubscriptions(m.cmds, 1)]
               [] s.status = "Monitor" ->
                    [s1 EXCEPT !.status = monitor_status(m.cmds)]
               [] OTHER -> s1

\* the loop: the message that woke the handler and all that try_next yields
RECURSIVE drain_channel(_)
drain_channel(s) ==
    IF s.running # "running" \/ Len(s.msg_channel) = 0 THEN s
    ELSE drain_channel(enqueue_message([s EXCEPT !.msg_channel = Tail(@)], Head(s.msg_channel)))

\* the values assigned to status, in order, while the commands of a message
\* are inspected in status st
RECURSIVE status_assignments(_, _, _)
status_assignments(cmds, i, st) ==
    IF i > Len(cmds) THEN <<>>
    ELSE (IF st = "Connected" /\ cmds[i].name \in SubscribeNames THEN <<"Subscribing">>
          ELSE IF st = "Connected" /\ cmds[i].name = "MONITOR" THEN <<"EnteringMonitor">>
          ELSE IF st = "Monitor" /\ cmds[i].name = "RESET" THEN <<"LeavingMonitor">>
          ELSE <<>>) \o status_assignments(cmds, i + 1, st)

\* the values assigned to status by the loop of handle_message
RECURSIVE drain_assignments(_)
drain_assignments(s) ==
    IF s.running # "running" \/ Len(s.msg_channel) = 0 THEN <<>>
    ELSE status_assignments(Head(s.msg_channel).cmds, 1, s.status)
         \o drain_assignments(enqueue_message([s EXCEPT !.msg_channel = Tail(@)],
                                              Head(s.msg_channel)))

\* the handler keeps a sender of the submission channel for its whole life
\* (the field msg_sender, used to resubmit retried messages)
handler_holds_sender == TRUE

\* msg_receiver.next() / try_next() yield None: the channel is empty and
\* every sender of it has been dropped
end_of_stream(s) ==
    Len(s.msg_channel) = 0 /\ ~s.callers_hold /\ ~handler_holds_sender

\* the loop ends when handle_message returns false
leave_loop(s, is_channel_closed) ==
    IF is_channel_closed /\ s.running = "running" THEN [s EXCEPT !.running = "ended"] ELSE s

\* (variant: the queue is written whatever the status)
handle_message_eager(s, write_ok) ==
    LET s1 == drain_channel(s)
    IN  IF s1.running # "running" THEN s1
        ELSE leave_loop(send_messages(s1, write_ok), end_of_stream(s1))

handle_message(s, write_ok) ==
    LET s1 == drain_channel(s)
        is_channel_closed == end_of_stream(s1)
    IN  IF s1.running # "running" THEN s1
        ELSE IF s1.status = "Disconnected" THEN leave_loop(s1, is_channel_closed)
        ELSE leave_loop(send_messages(s1, write_ok), is_channel_closed)

\* ------------------------------------------------------------------------
\* receive_result
\* ------------------------------------------------------------------------
\* the reasons carried by Err(Retry(reasons)): one reason, named by the frame
reasons_of(f) == <<f.n>>

\* retry_reasons of the message after the reasons of f are accumulated
accumulate(m, f) ==
    [m EXCEPT !.retry_reasons =
        Some((IF IsSome(@) THEN Unwrap(@) ELSE <<>>) \o reasons_of(f))]

\* the match on message.commands that hands the result to the caller
respond(s, m, f) ==
    IF m.kind = "Single" /\ m.sink THEN deliver(s, m, ResultOf(f))
    ELSE IF m.kind = "Batch" THEN
        IF is_ok(f)
        THEN LET taken == IF IsSome(s.pending_replies) THEN Unwrap(s.pending_replies) ELSE <<>>
             IN  deliver([s EXCEPT !.pending_replies = None], m, Ok(Append(taken, f)))
        ELSE deliver(s, m, ResultOf(f))
    ELSE s

\* whether the popped head is resubmitted instead of answered
should_retry(head, f) == f.kind = "retry" \/ IsSome(head.message.retry_reasons)

receive_result(s, f) ==
    IF Len(s.messages_to_receive) = 0
    THEN IF is_err(f) THEN s ELSE [s EXCEPT !.running = "panicked"]
    ELSE LET head == Head(s.messages_to_receive)
         IN  IF head.num_commands = 1 \/ is_err(f)
             THEN LET s1 == [s EXCEPT !.messages_to_receive = Tail(@)]
                  IN  IF should_retry(head, f)
                      THEN LET m == IF f.kind = "retry" THEN accumulate(head.message, f)
                                    ELSE head.message
                           IN  [s1 EXCEPT !.msg_channel = Append(@, m)]
                      ELSE respond(s1, head.message, f)
             ELSE LET pending == IF IsSome(s.pending_replies)
                                 THEN Unwrap(s.pending_replies) ELSE <<>>
                  IN  IF is_ok(f)
                      THEN [s EXCEPT !.pending_replies = Some(Append(pending, f)),
                                     !.messages_to_receive[1].num_commands = @ - 1]
                      ELSE IF f.kind = "retry"
                      THEN [s EXCEPT !.pending_replies = Some(pending),
                                     !.messages_to_receive[1].message = accumulate(@, f)]
                      ELSE [s EXCEPT !.pending_replies = Some(pending)]

\* ------------------------------------------------------------------------
\* try_match_pubsub_message: [s: the state after, out: Option of the frame
\* that still has to go through receive_result]
\* ------------------------------------------------------------------------
Remove(map, key) == [k \in DOMAIN map \ {key} |-> map[k]]

\* (variant: the frame is put in front of the frames already in the sink)
route_prepend(s, f) ==
    IF f.name \in DOMAIN s.subscriptions /\ alive(s, "pubsub", s.subscriptions[f.name].sink)
    THEN [s EXCEPT !.pubsub_log[s.subscriptions[f.name].sink] = <<f>> \o @]
    ELSE s

\* a frame for an unknown channel handed on as a reply
route_or_reply(s, f) ==
    IF f.name \in DOMAIN s.subscriptions
    THEN IF alive(s, "pubsub", s.subscriptions[f.name].sink)
         THEN [s EXCEPT !.pubsub_log[s.subscriptions[f.name].sink] = Append(@, f)]
         ELSE s
    ELSE receive_result(s, f)

\* pub_sub_sender.send(value) for the entry of channel_or_pattern, if any
route(s, f) ==
    IF f.name \in DOMAIN s.subscriptions /\ alive(s, "pubsub", s.subscriptions[f.name].sink)
    THEN [s EXCEPT !.pubsub_log[s.subscriptions[f.name].sink] = Append(@, f)]
    ELSE s

\* a subscribe confirmation: the entry moves from pending to confirmed
confirm_subscription(s, f) ==
    IF f.name \in DOMAIN s.pending_subscriptions
    THEN [s EXCEPT !.pending_subscriptions = Remove(@, f.name),
                   !.subscriptions = (f.name :> s.pending_subscriptions[f.name]) @@ @]
    ELSE s

\* whether the confirmation just handled completes the subscribe command
subscription_done(s) == DOMAIN s.pending_subscriptions = {}

try_match_pubsub_message(s, f) ==
    IF is_err(f) \/ ~is_pub_sub_message(f) THEN [s |-> s, out |-> Some(f)]
    ELSE IF f.kind \in MessageKinds THEN [s |-> route(s, f), out |-> None]
    ELSE IF f.kind \in SubscribeKinds THEN
        LET s1 == confirm_subscription(s, f)
        IN  [s |-> s1, out |-> IF subscription_done(s1) THEN Some(RespBufOk) ELSE None]
    ELSE
        LET s1 == [s EXCEPT !.subscriptions = Remove(@, f.name)]
        IN  IF Len(s.pending_unsubscriptions) = 0 THEN [s |-> s1, out |-> Some(f)]
            ELSE LET remaining == Head(s.pending_unsubscriptions)
                 IN  IF Cardinality(DOMAIN remaining) > 1
                     THEN [s |-> [s1 EXCEPT !.pending_unsubscriptions[1] = Remove(@, f.name)],
                           out |-> None]
                     ELSE [s |-> [s1 EXCEPT !.pending_unsubscriptions = Tail(@)],
                           out |-> IF f.name \in DOMAIN remaining
                                   THEN Some(RespBufOk) ELSE None]

\* ------------------------------------------------------------------------
\* handle_result, for Some(result); read() = None is reconnect
\* ------------------------------------------------------------------------
\* (variant: with no push sender the frame is treated as a reply)
push_or_receive(s, f) ==
    IF IsSome(s.push_sender)
    THEN IF alive(s, "push", Unwrap(s.push_sender))
         THEN [s EXCEPT !.push_log[Unwrap(s.push_sender)] = Append(@, f)]
         ELSE s
    ELSE receive_result(s, f)

\* push_sender.send(result), when a push sender is registered
push(s, f) ==
    IF IsSome(s.push_sender) /\ alive(s, "push", Unwrap(s.push_sender))
    THEN [s EXCEPT !.push_log[Unwrap(s.push_sender)] = Append(@, f)]
    ELSE s

\* the status left by a frame received in Subscribing status
subscribing_status(f) == IF is_ok(f) THEN "Subscribed" ELSE "Connected"

\* (variant: the status returns to Connected when the last subscription ends)
match_then_return(s, f) ==
    LET r == try_match_pubsub_message(s, f)
        s1 == IF IsSome(r.out) THEN receive_result(r.s, Unwrap(r.out)) ELSE r.s
    IN  IF f.kind \in UnsubscribeKinds /\ DOMAIN s1.subscriptions = {}
           /\ s1.running = "running"
        THEN [s1 EXCEPT !.status = "Connected"] ELSE s1

match_then_receive(s, f) ==
    LET r == try_match_pubsub_message(s, f)
    IN  IF IsSome(r.out) THEN receive_result(r.s, Unwrap(r.out)) ELSE r.s

\* assignment of status after a call that may have ended the task
set_status(s, st) == IF s.running = "running" THEN [s EXCEPT !.status = st] ELSE s

handle_result(s, f) ==
    CASE s.status = "Disconnected" -> s
      [] s.status = "Connected" ->
            IF is_push_message(f) THEN push(s, f) ELSE receive_result(s, f)
      [] s.status = "Subscribing" ->
            match_then_receive([s EXCEPT !.status = subscribing_status(f)], f)
      [] s.status = "Subscribed" -> match_then_receive(s, f)
      [] s.status = "EnteringMonitor" -> set_status(receive_result(s, f), "Monitor")
      [] s.status = "Monitor" ->
            IF is_ok(f) /\ is_monitor_message(f) THEN push(s, f) ELSE receive_result(s, f)
      [] s.status = "LeavingMonitor" ->
            IF is_ok(f) /\ is_monitor_message(f) THEN push(s, f)
            ELSE set_status(receive_result(s, f), "Connected")

\* ------------------------------------------------------------------------
\* reconnect
\* ------------------------------------------------------------------------
\* attempts += 1 for every queued message with retry_on_error
bump_attempts(q) ==
    [i \in 1..Len(q) |->
        IF q[i].message.retry_on_error THEN [q[i] EXCEPT !.attempts = @ + 1] ELSE q[i]]

\* (variant: one attempt more than the cap is allowed)
gives_up_late(entry, max) == ~entry.message.retry_on_error \/ entry.attempts > max

\* the test of the while loops: this head entry is failed, not kept
gives_up(entry, max) == ~entry.message.retry_on_error \/ entry.attempts >= max

\* the while loops: pop from the head until the first entry that is kept
RECURSIVE pop_failed(_, _, _)
pop_failed(s, q, max) ==
    IF Len(q) > 0 /\ gives_up(Head(q), max)
    THEN pop_failed(deliver(s, Head(q).message, Disconnected), Tail(q), max)
    ELSE [s |-> s, q |-> q]

\* A fresh connection: the server side starts from scratch.
new_connection(s) ==
    [s EXCEPT !.conn = @ + 1, !.link_up = TRUE, !.srv_out = <<>>, !.srv_subs = {},
              !.srv_reply = "on", !.srv_monitor = FALSE]

\* connection.subscribe / psubscribe / ssubscribe / send: one command issued
\* by the handler itself; its answer comes back through read()
issue(s, c) ==
    [server_execute(s, c) EXCEPT !.wire = Append(@, WireEntry(s, 0, c, FALSE, TRUE))]

SubscribeCommand(type, name) ==
    cmd(CASE type = "Channel" -> "SUBSCRIBE"
          [] type = "Pattern" -> "PSUBSCRIBE"
          [] type = "ShardChannel" -> "SSUBSCRIBE", <<name>>)

\* the keys of a HashMap in the order its iterator happens to yield them
keys_in_order(map, order) == SelectSeq(order, LAMBDA n : n \in DOMAIN map)

RECURSIVE unsubscription_calls(_, _, _)
unsubscription_calls(queue, order, i) ==
    IF i > Len(queue) THEN <<>>
    ELSE LET keys == keys_in_order(queue[i], order)
         IN  [k \in 1..Len(keys) |-> [phase |-> 3, name |-> keys[k], type |-> queue[i][keys[k]]]]
             \o unsubscription_calls(queue, order, i + 1)

\* (variant: only the confirmed subscriptions are renewed)
resubscribe_calls_confirmed(s, order) ==
    LET k1 == keys_in_order(s.subscriptions, order)
    IN  [k \in 1..Len(k1) |-> [phase |-> 1, name |-> k1[k], type |-> s.subscriptions[k1[k]].type]]
        \o unsubscription_calls(s.pending_unsubscriptions, order, 1)

\* the connection calls auto_resubscribe makes when none fails, in order
resubscribe_calls(s, order) ==
    LET k1 == keys_in_order(s.subscriptions, order)
        k2 == keys_in_order(s.pending_subscriptions, order)
    IN  [k \in 1..Len(k1) |-> [phase |-> 1, name |-> k1[k], type |-> s.subscriptions[k1[k]].type]]
        \o [k \in 1..Len(k2) |->
                [phase |-> 2, name |-> k2[k], type |-> s.pending_subscriptions[k2[k]].type]]
        \o unsubscription_calls(s.pending_unsubscriptions, order, 1)

\* the bookkeeping that follows one successful call
after_call(s, pending, call) ==
    IF call.phase = 2
    THEN [s EXCEPT !.subscriptions = (call.name :> pending[call.name]) @@ @]
    ELSE IF call.phase = 3
    THEN [s EXCEPT !.subscriptions = Remove(@, call.name)]
    ELSE s

RECURSIVE run_calls(_, _, _, _, _)
run_calls(s, pending, calls, i, last) ==
    IF i > last THEN s
    ELSE run_calls(after_call(issue(s, SubscribeCommand(calls[i].type, calls[i].name)),
                              pending, calls[i]),
                   pending, calls, i + 1, last)

\* fail = 0: every call succeeds; fail = k: call k returns an error.
\* A drain that was started empties its collection even when left early.
do_auto_resubscribe(s, order, fail) ==
    LET calls == resubscribe_calls(s, order)
        failed == fail \in 1..Len(calls)
        last == IF failed THEN fail - 1 ELSE Len(calls)
        reached == IF failed THEN calls[fail].phase ELSE 4
        s1 == run_calls(s, s.pending_subscriptions, calls, 1, last)
    IN  [ok |-> ~failed,
         s |-> [s1 EXCEPT
                  !.pending_subscriptions = IF reached >= 2 THEN EmptyMap ELSE @,
                  !.pending_unsubscriptions = IF reached >= 3 THEN <<>> ELSE @]]

do_auto_remonitor(s, old_status, ok) ==
    IF old_status \in {"Monitor", "EnteringMonitor"}
    THEN IF ok THEN [ok |-> TRUE, s |-> issue(s, MONITOR)] ELSE [ok |-> FALSE, s |-> s]
    ELSE [ok |-> TRUE, s |-> s]

\* (variant: the entries are taken from the front, which reverses them)
requeue_reversed(s) ==
    [s EXCEPT !.messages_to_send =
                  [i \in 1..Len(s.messages_to_receive) |->
                      [message |-> s.messages_to_receive[Len(s.messages_to_receive) + 1 - i].message,
                       attempts |-> s.messages_to_receive[Len(s.messages_to_receive) + 1 - i].attempts]]
                  \o @,
              !.messages_to_receive = <<>>]

\* (variant: the entries are copied, not moved)
requeue_copied(s) ==
    [s EXCEPT !.messages_to_send =
                  [i \in 1..Len(s.messages_to_receive) |->
                      [message |-> s.messages_to_receive[i].message,
                       attempts |-> s.messages_to_receive[i].attempts]] \o @]

\* messages_to_receive goes back to the front of messages_to_send
requeue(s) ==
    [s EXCEPT !.messages_to_send =
                  [i \in 1..Len(s.messages_to_receive) |->
                      [message |-> s.messages_to_receive[i].message,
                       attempts |-> s.messages_to_receive[i].attempts]] \o @,
              !.messages_to_receive = <<>>]

\* the status a completed reconnect leaves
reconnected_status(s, old_status) ==
    IF DOMAIN s.subscriptions # {} THEN "Subscribed"
    ELSE IF old_status \in {"Monitor", "EnteringMonitor"}
    THEN IF IsSome(s.push_sender) THEN "Monitor" ELSE s.status
    ELSE "Connected"

\* io: what the environment does during this reconnect
\*   connect_ok, remonitor_ok, write_ok: outcome of the connection calls
\*   resubscribe_fail: which call of auto_resubscribe fails (0: none)
\*   order: iteration order of the hash maps
\* (variant: nothing is broadcast)
notify_nobody(s) == s

\* reconnect_sender.send(()): one notification to the clients
notify(s) == [s EXCEPT !.notifications = @ + 1]

reconnect(s, io) ==
    LET old_status == s.status
        s0 == [s EXCEPT !.status = "Disconnected", !.link_up = FALSE,
                        !.link_lost_in = IF old_status = "Disconnected" THEN @ ELSE old_status]
        r1 == pop_failed(s0, bump_attempts(s0.messages_to_receive), max_command_attempts)
        r2 == pop_failed(r1.s, bump_attempts(s0.messages_to_send), max_command_attempts)
        s2 == [r2.s EXCEPT !.messages_to_receive = r1.q, !.messages_to_send = r2.q]
        s3 == new_connection(s2)
        r4 == IF auto_resubscribe THEN do_auto_resubscribe(s3, io.order, io.resubscribe_fail)
              ELSE [ok |-> TRUE, s |-> s3]
        r5 == IF auto_remonitor THEN do_auto_remonitor(r4.s, old_status, io.remonitor_ok)
              ELSE [ok |-> TRUE, s |-> r4.s]
        s6 == send_messages(requeue(notify(r5.s)), io.write_ok)
    IN  IF ~io.connect_ok THEN s2
        ELSE IF ~r4.ok THEN [r4.s EXCEPT !.link_up = FALSE]
        ELSE IF ~r5.ok THEN [r5.s EXCEPT !.link_up = FALSE]
        ELSE [s6 EXCEPT !.status = reconnected_status(s6, old_status)]

\* ------------------------------------------------------------------------
\* Initial state: NetworkHandler::connect succeeded
\* ------------------------------------------------------------------------
InitHandler ==
    /\ status = "Connected"
    /\ messages_to_send = <<>>
    /\ messages_to_receive = <<>>
    /\ pending_subscriptions = EmptyMap
    /\ pending_unsubscriptions = <<>>
    /\ subscriptions = EmptyMap
    /\ is_reply_on = TRUE
    /\ push_sender = None
    /\ pending_replies = None
    /\ msg_channel = <<>>
    /\ running = "running"
    /\ replies = [i \in Ids |-> <<>>]
    /\ pubsub_log = [i \in Ids |-> <<>>]
    /\ push_log = [i \in Ids |-> <<>>]
    /\ notifications = 0
    /\ wire = <<>>
    /\ write_reasons = <<>>
    /\ conn = 1
    /\ link_up = TRUE
    /\ srv_out = <<>>
    /\ srv_subs = {}
    /\ srv_reply = "on"
    /\ srv_monitor = FALSE
    /\ enqueued_in = [i \in Ids |-> "none"]
    /\ link_lost_in = "none"
    /\ dropped = {}
    /\ callers_hold = TRUE
    /\ submitted = <<>>
    /\ next_id = 1
    /\ nframes = 0
    /\ last_frame = NoFrame
    /\ nasync = 0
    /\ disconnects = 0
    /\ nretries = 0

InitConfig(resubscribe, remonitor, attempts) ==
    /\ auto_resubscribe \in resubscribe
    /\ auto_remonitor \in remonitor
    /\ max_command_attempts \in attempts

\* ------------------------------------------------------------------------
\* Actions: the callers, and the two arms of the select! in network_loop
\* ------------------------------------------------------------------------
\* a caller sends one message of the set on the submission channel
Submit(messages, limit) ==
    /\ running = "running" /\ callers_hold
    /\ next_id <= limit
    /\ \E m \in messages :
        /\ msg_channel' = Append(msg_channel, [m EXCEPT !.id = next_id])
        /\ submitted' = Append(submitted, [m EXCEPT !.id = next_id])
    /\ next_id' = next_id + 1
    /\ UNCHANGED <<status, messages_to_send, messages_to_receive, pending_subscriptions,
                   pending_unsubscriptions, subscriptions, is_reply_on, push_sender,
                   pending_replies, running>>
    /\ UNCHANGED <<config_vars, caller_vars, receiver_vars, server_vars, trace_vars>>
    /\ UNCHANGED <<nframes, last_frame, nasync, disconnects, nretries>>

\* a caller drops the receiving half of one of the sinks of a message it sent
SinkKinds(m) ==
    (IF HasSink(m) THEN {"reply"} ELSE {})
    \cup (IF IsSome(m.pub_sub_senders) THEN {"pubsub"} ELSE {})
    \cup (IF m.push_sender THEN {"push"} ELSE {})

DropReceiver ==
    /\ running = "running"
    /\ Cardinality(dropped) < MaxDroppedReceivers
    /\ \E i \in 1..Len(submitted) : \E kind \in SinkKinds(submitted[i]) :
        /\ <<kind, i>> \notin dropped
        /\ dropped' = dropped \cup {<<kind, i>>}
    /\ UNCHANGED <<callers_hold, handler_vars, config_vars, caller_vars, server_vars, trace_vars, history_vars>>

\* the callers drop every sender of the submission channel they hold
DropSenders ==
    /\ callers_hold
    /\ callers_hold' = FALSE
    /\ UNCHANGED <<dropped, handler_vars, config_vars, caller_vars, server_vars, trace_vars,
                   history_vars>>

\* msg_receiver.next() is ready: handle_message, write outcome drawn from outcomes
HandleMessage(outcomes) ==
    /\ running = "running"
    /\ Len(msg_channel) > 0 \/ end_of_stream(Pack)
    /\ \E write_ok \in outcomes : Unpack(handle_message(Pack, write_ok))
    /\ UNCHANGED <<config_vars, history_vars>>

\* connection.read() yields Some(frame): handle_result
Receive(s, f, retried, async) ==
    /\ Unpack(handle_result(s, f))
    /\ nframes' = nframes + 1
    /\ last_frame' = f
    /\ nretries' = nretries + retried
    /\ nasync' = nasync + async
    /\ UNCHANGED <<config_vars, submitted, next_id, disconnects>>

CanRead == running = "running" /\ link_up

\* the frame the server owes next, as the transport yields it
NextOwed(kind) == [Head(srv_out) EXCEPT !.n = nframes + 1, !.kind = kind]
Consumed ==
    [Pack EXCEPT !.srv_out = Tail(@),
                 !.srv_monitor = IF Head(srv_out).name = "MONITOR" THEN TRUE
                                 ELSE IF Head(srv_out).name = "RESET" THEN FALSE
                                 ELSE @]
\* the same when the command failed: it has changed nothing on the server
Failed == [Pack EXCEPT !.srv_out = Tail(@)]

ReadReply ==
    /\ CanRead /\ Len(srv_out) > 0 /\ nframes < MaxFrames
    /\ Receive(Consumed, NextOwed(Head(srv_out).kind), 0, 0)

\* the transport lifts a redirect (MOVED / ASK) into Err(Retry(reasons))
ReadRetry(limit) ==
    /\ CanRead /\ Len(srv_out) > 0 /\ Head(srv_out).kind = "reply"
    /\ nretries < limit /\ nframes < MaxFrames
    /\ Receive(Failed, NextOwed("retry"), 1, 0)

\* reading the next reply fails with another error
ReadError ==
    /\ CanRead /\ Len(srv_out) > 0 /\ Head(srv_out).kind = "reply"
    /\ nretries < MaxRetries /\ nframes < MaxFrames
    /\ Receive(Failed, NextOwed("error"), 1, 0)

MessageKindOf(kind) ==
    CASE kind = "subscribe" -> "message"
      [] kind = "psubscribe" -> "pmessage"
      [] kind = "ssubscribe" -> "smessage"

\* a publisher's message for a name the server holds a subscription for and
\* has already confirmed
ReadMessage ==
    /\ CanRead /\ nasync < MaxAsync /\ nframes < MaxFrames
    /\ \E sub \in srv_subs :
        /\ \A i \in 1..Len(srv_out) : srv_out[i].name # sub[2]
        /\ Receive(Pack, Frame(MessageKindOf(sub[1]), sub[2], nframes + 1), 0, 1)

\* a monitor log line: the server streams them from its answer to MONITOR
\* until its answer to RESET
ReadMonitorLine ==
    /\ CanRead /\ srv_monitor /\ nasync < MaxAsync /\ nframes < MaxFrames
    /\ Receive(Pack, Frame("monitor", "", nframes + 1), 0, 1)

\* an out-of-band push frame: the server may send one at any time
ReadPush ==
    /\ CanRead /\ nasync < MaxAsync /\ nframes < MaxFrames
    /\ Receive(Pack, PushFrame(nframes + 1), 0, 1)

Orders == {o \in [1..Cardinality(Names) -> Names] : \A i, j \in DOMAIN o : o[i] = o[j] => i = j}

\* connection.read() yields None: reconnect
ReadEof(limit, connects, resub_fails, remonitors, writes) ==
    /\ running = "running"
    /\ disconnects < limit /\ nframes < MaxFrames
    /\ \E c \in connects, k \in resub_fails, r \in remonitors, w \in writes, o \in Orders :
        Unpack(reconnect(Pack, [connect_ok |-> c, resubscribe_fail |-> k,
                                remonitor_ok |-> r, write_ok |-> w, order |-> o]))
    /\ disconnects' = disconnects + 1
    /\ nframes' = nframes + 1
    /\ last_frame' = Frame("eof", "", nframes + 1)
    /\ UNCHANGED <<config_vars, submitted, next_id, nasync, nretries>>

\* ------------------------------------------------------------------------
\* Ordinary traffic: single commands with a reply sink, no protocol change
\* ------------------------------------------------------------------------
PlainMessages ==
    {Single(c, TRUE, r) : c \in {GET, INCR, ClientSetName}, r \in BOOLEAN}

SubmitPlain == Submit(PlainMessages, MaxMsgs)
HandleMessageOk == HandleMessage({TRUE})

InitPlain == InitHandler /\ InitConfig({TRUE}, {TRUE}, {MaxAttempts})
NextPlain == SubmitPlain \/ HandleMessageOk \/ ReadReply \/ ReadError
SpecPlain == InitPlain /\ [][NextPlain]_vars

\* ------------------------------------------------------------------------
\* Batches over a link that drops: pipelines, reconnects that succeed
\* ------------------------------------------------------------------------
BatchMessages ==
    {Batch(cs, r) : cs \in {<<SET, INCR, GET>>, <<GET, INCR>>}, r \in BOOLEAN}
    \cup {Single(GET, TRUE, TRUE)}

SubmitBatch == Submit(BatchMessages, MaxMsgs)
ReadEofReconnected == ReadEof(MaxDisconnects, {TRUE}, {0}, {TRUE}, {TRUE})

InitBatch == InitHandler /\ InitConfig({TRUE}, {TRUE}, {MaxAttempts})
NextBatch == SubmitBatch \/ HandleMessageOk \/ ReadReply \/ ReadEofReconnected
SpecBatch == InitBatch /\ [][NextBatch]_vars

\* ------------------------------------------------------------------------
\* Subscriptions: subscribe commands and the publishers' messages
\* ------------------------------------------------------------------------
SUBSCRIBE(names) == cmd("SUBSCRIBE", names)
PSUBSCRIBE(names) == cmd("PSUBSCRIBE", names)
UNSUBSCRIBE(names) == cmd("UNSUBSCRIBE", names)

SubscribeMessages ==
    {PubSub(c, FALSE) : c \in {SUBSCRIBE(<<"a">>), SUBSCRIBE(<<"b">>),
                               SUBSCRIBE(<<"a", "b">>), PSUBSCRIBE(<<"b">>)}}

SubmitSubscribe == Submit(SubscribeMessages, MaxMsgs)

InitSubscribe == InitHandler /\ InitConfig({TRUE}, {TRUE}, {MaxAttempts})
NextSubscribe == SubmitSubscribe \/ HandleMessageOk \/ ReadReply \/ ReadMessage
SpecSubscribe == InitSubscribe /\ [][NextSubscribe]_vars

\* ------------------------------------------------------------------------
\* Pub/sub next to ordinary traffic, over a link that drops
\* ------------------------------------------------------------------------
PubSubMessages ==
    {PubSub(c, TRUE) : c \in {SUBSCRIBE(<<"a">>), PSUBSCRIBE(<<"b">>)}}
    \cup {Batch(<<GET, INCR>>, TRUE)}

SubmitPubSub == Submit(PubSubMessages, MaxFewMsgs)
ReadEofOnce == ReadEof(MaxDrops, {TRUE}, {0, 1}, {TRUE}, {TRUE})

InitPubSub == InitHandler /\ InitConfig({TRUE}, {TRUE}, {MaxAttempts})
NextPubSub ==
    SubmitPubSub \/ HandleMessageOk \/ ReadReply \/ ReadMessage \/ ReadEofOnce
SpecPubSub == InitPubSub /\ [][NextPubSub]_vars

\* ------------------------------------------------------------------------
\* CLIENT REPLY: commands that switch replies off, on, or skip one
\* ------------------------------------------------------------------------
ClientReplyMessages ==
    {Single(ClientReply(mode), FALSE, FALSE) : mode \in {"OFF", "ON", "SKIP"}}
    \cup {Single(GET, TRUE, FALSE),
          Batch(<<ClientReply("OFF"), SET, ClientReply("ON")>>, FALSE),
          Batch(<<SET, GET>>, FALSE)}

SubmitClientReply == Submit(ClientReplyMessages, MaxMsgs)
HandleMessageAny == HandleMessage(BOOLEAN)

InitClientReply == InitHandler /\ InitConfig({TRUE}, {TRUE}, {MaxAttempts})
NextClientReply == SubmitClientReply \/ HandleMessageAny \/ ReadReply
SpecClientReply == InitClientReply /\ [][NextClientReply]_vars

\* ------------------------------------------------------------------------
\* Retries: a link that drops, reconnects that may fail
\* ------------------------------------------------------------------------
RetryMessages ==
    {Single(GET, TRUE, TRUE), Single(INCR, TRUE, FALSE)}

SubmitRetry == Submit(RetryMessages, MaxFewMsgs)
ReadEofAny == ReadEof(MaxDisconnects, BOOLEAN, {0}, {TRUE}, {TRUE})
ReadRedirect == ReadRetry(MaxRedirects)

InitRetry == InitHandler /\ InitConfig({TRUE}, {TRUE}, {MaxAttempts})
NextRetry == SubmitRetry \/ HandleMessageOk \/ ReadReply \/ ReadRedirect \/ ReadEofAny
SpecRetry == InitRetry /\ [][NextRetry]_vars

\* ------------------------------------------------------------------------
\* Redirects: replies the transport turns into Err(Retry), on a stable link
\* ------------------------------------------------------------------------
RedirectMessages ==
    {Single(GET, TRUE, FALSE), Batch(<<SET, GET>>, FALSE), Batch(<<SET, GET>>, TRUE)}

SubmitRedirect == Submit(RedirectMessages, MaxFewMsgs)
ReadRetryAny == ReadRetry(MaxRetries)

InitRedirect == InitHandler /\ InitConfig({TRUE}, {TRUE}, {MaxAttempts})
NextRedirect == SubmitRedirect \/ HandleMessageOk \/ ReadReply \/ ReadRetryAny
SpecRedirect == InitRedirect /\ [][NextRedirect]_vars

\* ------------------------------------------------------------------------
\* Fire and forget: single commands without a reply sink among others
\* ------------------------------------------------------------------------
ForgetMessages ==
    {Single(SET, FALSE, FALSE), Single(GET, TRUE, FALSE), Batch(<<SET, GET>>, FALSE)}

SubmitForget == Submit(ForgetMessages, MaxMsgs)

InitForget == InitHandler /\ InitConfig({TRUE}, {TRUE}, {MaxAttempts})
NextForget == SubmitForget \/ HandleMessageOk \/ ReadReply \/ ReadError
SpecForget == InitForget /\ [][NextForget]_vars

\* ------------------------------------------------------------------------
\* Replays: messages that survive more than one disconnect
\* ------------------------------------------------------------------------
ReplayMessages ==
    {Single(GET, TRUE, TRUE), Single(INCR, TRUE, FALSE), Batch(<<SET, GET>>, TRUE)}

SubmitReplay == Submit(ReplayMessages, MaxFewMsgs)

InitReplay == InitHandler /\ InitConfig({TRUE}, {TRUE}, {MaxAttempts + 1})
NextReplay == SubmitReplay \/ HandleMessageOk \/ ReadReply \/ ReadEofAny
SpecReplay == InitReplay /\ [][NextReplay]_vars

\* ------------------------------------------------------------------------
\* Monitor mode: MONITOR, commands sent meanwhile, RESET
\* ------------------------------------------------------------------------
MonitorMessages ==
    {Monitor(MONITOR, FALSE), Single(GET, TRUE, FALSE), Single(RESET, TRUE, FALSE)}

SubmitMonitor == Submit(MonitorMessages, MaxMsgs)

InitMonitor == InitHandler /\ InitConfig({TRUE}, {TRUE}, {MaxAttempts})
NextMonitor == SubmitMonitor \/ HandleMessageOk \/ ReadReply \/ ReadMonitorLine
SpecMonitor == InitMonitor /\ [][NextMonitor]_vars

\* ------------------------------------------------------------------------
\* Unsubscribing: subscribe, then leave the channels again
\* ------------------------------------------------------------------------
UnsubscribeMessages ==
    {PubSub(SUBSCRIBE(<<"a", "b">>), FALSE)}
    \cup {Single(UNSUBSCRIBE(ns), TRUE, FALSE) : ns \in {<<"a">>, <<"b">>, <<"a", "b">>}}

SubmitUnsubscribe == Submit(UnsubscribeMessages, MaxMsgs)

InitUnsubscribe == InitHandler /\ InitConfig({TRUE}, {TRUE}, {MaxAttempts})
NextUnsubscribe == SubmitUnsubscribe \/ HandleMessageOk \/ ReadReply \/ ReadMessage
SpecUnsubscribe == InitUnsubscribe /\ [][NextUnsubscribe]_vars

\* ------------------------------------------------------------------------
\* Unrouted channels: SUBSCRIBE sent as an ordinary command, with no pub/sub
\* sender, next to a subscription made with one
\* ------------------------------------------------------------------------
UnroutedMessages ==
    {PubSub(SUBSCRIBE(<<"a">>), FALSE), Single(SUBSCRIBE(<<"b">>), TRUE, FALSE),
     Single(GET, TRUE, FALSE)}

SubmitUnrouted == Submit(UnroutedMessages, MaxMsgs)

InitUnrouted == InitHandler /\ InitConfig({TRUE}, {TRUE}, {MaxAttempts})
NextUnrouted == SubmitUnrouted \/ HandleMessageOk \/ ReadReply \/ ReadError \/ ReadMessage
SpecUnrouted == InitUnrouted /\ [][NextUnrouted]_vars

\* ------------------------------------------------------------------------
\* Dropped receivers: callers that stop listening to their sinks
\* ------------------------------------------------------------------------
DroppedMessages ==
    {Single(GET, TRUE, FALSE), Batch(<<SET, GET>>, FALSE),
     PubSub(SUBSCRIBE(<<"a">>), FALSE), PubSub(SUBSCRIBE(<<"a", "b">>), FALSE),
     Monitor(MONITOR, FALSE)}

SubmitDropped == Submit(DroppedMessages, MaxLoneMsgs)

InitDropped == InitHandler /\ InitConfig({TRUE}, {TRUE}, {MaxAttempts})
NextDropped ==
    \/ SubmitDropped \/ DropReceiver \/ HandleMessageOk
    \/ ReadReply \/ ReadError \/ ReadMessage \/ ReadMonitorLine
SpecDropped == InitDropped /\ [][NextDropped]_vars

\* ------------------------------------------------------------------------
\* Closure: the callers drop their senders of the submission channel
\* ------------------------------------------------------------------------
ClosureMessages == {Single(GET, TRUE, FALSE), Single(SET, FALSE, FALSE), Batch(<<SET, GET>>, FALSE)}

SubmitClosure == Submit(ClosureMessages, MaxMsgs)

InitClosure == InitHandler /\ InitConfig({TRUE}, {TRUE}, {MaxAttempts})
NextClosure == SubmitClosure \/ DropSenders \/ HandleMessageOk \/ ReadReply
SpecClosure == InitClosure /\ [][NextClosure]_vars

\* ------------------------------------------------------------------------
\* Status changes: subscriptions, monitoring and reconnects together
\* ------------------------------------------------------------------------
StatusMessages ==
    {PubSub(SUBSCRIBE(<<"a">>), FALSE), Monitor(MONITOR, FALSE), Single(RESET, TRUE, FALSE),
     Single(GET, TRUE, FALSE), Batch(<<SUBSCRIBE(<<"b">>), MONITOR>>, FALSE)}

SubmitStatus == Submit(StatusMessages, MaxFewMsgs)
ReadEofSeldom == ReadEof(MaxDrops, BOOLEAN, {0}, {TRUE}, {TRUE})

InitStatus == InitHandler /\ InitConfig({TRUE}, {TRUE}, {MaxAttempts})
NextStatus ==
    \/ SubmitStatus \/ HandleMessageOk \/ ReadReply \/ ReadError
    \/ ReadMessage \/ ReadMonitorLine \/ ReadEofSeldom
SpecStatus == InitStatus /\ [][NextStatus]_vars

\* ------------------------------------------------------------------------
\* Reconnects: a link that drops while subscribed or monitoring, with the
\* automatic steps on or off and free to fail
\* ------------------------------------------------------------------------
ReconnectMessages ==
    {Monitor(MONITOR, FALSE), Single(GET, TRUE, TRUE), PubSub(SUBSCRIBE(<<"a">>), FALSE)}

SubmitReconnect == Submit(ReconnectMessages, MaxFewMsgs)
ReadEofFreely == ReadEof(MaxDrops, BOOLEAN, {0, 1}, BOOLEAN, {TRUE})

InitReconnect == InitHandler /\ InitConfig(BOOLEAN, BOOLEAN, {MaxAttempts})
NextReconnect ==
    \/ SubmitReconnect \/ HandleMessageOk \/ ReadReply
    \/ ReadMessage \/ ReadMonitorLine \/ ReadEofFreely
SpecReconnect == InitReconnect /\ [][NextReconnect]_vars

\* ------------------------------------------------------------------------
\* Outages: the link drops and the server cannot be reached for a while
\* ------------------------------------------------------------------------
OutageMessages ==
    {Single(GET, TRUE, TRUE), Single(INCR, TRUE, FALSE)}

SubmitOutage == Submit(OutageMessages, MaxMsgs)

InitOutage == InitHandler /\ InitConfig({TRUE}, {TRUE}, {MaxAttempts})
NextOutage == SubmitOutage \/ HandleMessageOk \/ ReadReply \/ ReadEofAny
SpecOutage == InitOutage /\ [][NextOutage]_vars

\* ------------------------------------------------------------------------
\* Resubscribing: the link drops while an unsubscribe awaits its confirmation
\* ------------------------------------------------------------------------
ResubscribeMessages ==
    {PubSub(SUBSCRIBE(<<"a">>), FALSE), PubSub(SUBSCRIBE(<<"b">>), FALSE),
     Single(UNSUBSCRIBE(<<"a">>), TRUE, FALSE)}

SubmitResubscribe == Submit(ResubscribeMessages, MaxFewMsgs)
ReadEofResubscribing == ReadEof(MaxDrops, {TRUE}, {0, 1}, {TRUE}, {TRUE})

InitResubscribe == InitHandler /\ InitConfig({TRUE}, {TRUE}, {MaxAttempts})
NextResubscribe ==
    \/ SubmitResubscribe \/ HandleMessageOk \/ ReadReply
    \/ ReadMessage \/ ReadEofResubscribing
SpecResubscribe == InitResubscribe /\ [][NextResubscribe]_vars

\* ------------------------------------------------------------------------
\* Unsubscribing from everything: UNSUBSCRIBE with no arguments
\* ------------------------------------------------------------------------
UnsubscribeAllMessages ==
    {PubSub(SUBSCRIBE(<<"a">>), FALSE), PubSub(SUBSCRIBE(<<"a", "b">>), FALSE),
     Single(UNSUBSCRIBE(<<>>), TRUE, FALSE), Single(UNSUBSCRIBE(<<"a">>), TRUE, FALSE)}

SubmitUnsubscribeAll == Submit(UnsubscribeAllMessages, MaxMsgs)

InitUnsubscribeAll == InitHandler /\ InitConfig({TRUE}, {TRUE}, {MaxAttempts})
NextUnsubscribeAll == SubmitUnsubscribeAll \/ HandleMessageOk \/ ReadReply \/ ReadMessage
SpecUnsubscribeAll == InitUnsubscribeAll /\ [][NextUnsubscribeAll]_vars

\* ------------------------------------------------------------------------
\* Push frames: out-of-band frames with and without a registered push sender
\* ------------------------------------------------------------------------
PushMessages ==
    {Single(GET, TRUE, FALSE), Monitor(MONITOR, FALSE), Single(RESET, TRUE, FALSE)}

SubmitPush == Submit(PushMessages, MaxMsgs)

InitPush == InitHandler /\ InitConfig({TRUE}, {TRUE}, {MaxAttempts})
NextPush ==
    SubmitPush \/ HandleMessageOk \/ ReadReply \/ ReadMonitorLine \/ ReadPush
SpecPush == InitPush /\ [][NextPush]_vars

\* ------------------------------------------------------------------------
\* Monitoring through outages: the link drops in monitor mode, the server may
\* stay out of reach for more than one attempt and writes may fail
\* ------------------------------------------------------------------------
RemonitorMessages == {Monitor(MONITOR, FALSE), Single(GET, TRUE, TRUE)}

SubmitRemonitor == Submit(RemonitorMessages, MaxFewMsgs)
ReadEofOften == ReadEof(MaxDisconnects, BOOLEAN, {0}, BOOLEAN, BOOLEAN)

InitRemonitor == InitHandler /\ InitConfig({TRUE}, {TRUE}, {MaxAttempts})
NextRemonitor ==
    SubmitRemonitor \/ HandleMessageAny \/ ReadReply \/ ReadMonitorLine \/ ReadEofOften
SpecRemonitor == InitRemonitor /\ [][NextRemonitor]_vars

\* ========================================================================
\* Claims
\* ========================================================================
Submitted == 1..Len(submitted)

\* positions of the wire log that hold commands of message id
WirePositions(id) == {p \in 1..Len(wire) : wire[p].id = id}
\* number of frames that had been read when message id was last written
LastWrittenAt(id) ==
    LET ps == WirePositions(id)
    IN  wire[CHOOSE p \in ps : \A q \in ps : q <= p].at

\* C1 - order preservation: with single commands that have a reply sink,
\* replies on and neither Retry, write error nor disconnect, the sink of the
\* i-th submitted message receives the i-th frame the transport yields and
\* nothing else: it holds that frame as soon as i frames were read, and is
\* empty before.
C1_OrderPreservation ==
    \A i \in Submitted :
        /\ Len(replies[i]) <= 1
        /\ Len(replies[i]) = 1 <=> nframes >= i
        /\ Len(replies[i]) = 1 =>
            /\ replies[i][1].v[1].n = i
            /\ replies[i][1].ok <=> replies[i][1].e = ""

\* three pipelined messages answered, the first by an error, the others by values
C1_Witness ==
    /\ Len(submitted) >= 3
    /\ \A i \in 1..3 : Len(replies[i]) = 1
    /\ ~replies[1][1].ok /\ replies[2][1].ok /\ replies[3][1].ok
    /\ wire[3].at = 0

\* C2 - batch atomicity: the results sink of a batch of K commands receives
\* at most one result, and an Ok result is a vector of exactly K replies, in
\* the order they were read, all of them read after the batch was last
\* written (none accumulated for an earlier transmission or another message).
C2_BatchAtomicity ==
    \A i \in Submitted :
        submitted[i].kind = "Batch" =>
            /\ Len(replies[i]) <= 1
            /\ \A k \in 1..Len(replies[i]) :
                LET r == replies[i][k]
                IN  r.ok =>
                    /\ Len(r.v) = Len(submitted[i].cmds)
                    /\ \A j \in 1..Len(r.v) : r.v[j].n > LastWrittenAt(i)
                    /\ \A j \in 1..(Len(r.v) - 1) : r.v[j].n < r.v[j + 1].n

\* number of names in the commands at wire positions 1..p
RECURSIVE NamesWritten(_)
NamesWritten(p) == IF p = 0 THEN 0 ELSE NamesWritten(p - 1) + Len(wire[p].args)

\* the server has confirmed every name of subscribe message i: it has sent
\* as many confirmations as the commands up to and including i name
FullyConfirmed(i) ==
    /\ WirePositions(i) # {}
    /\ \A p \in WirePositions(i) : NamesWritten(Len(wire)) - Len(srv_out) >= NamesWritten(p)

\* C3 - subscription confirmation: the reply sink of a subscribe message
\* holds one synthetic OK exactly when the server has confirmed every name
\* of that message, and is unresolved while fewer are confirmed, also with
\* several subscribe messages in flight.
C3_SubscriptionConfirmation ==
    \A i \in Submitted :
        submitted[i].cmds[1].name \in SubscribeNames =>
            replies[i] = IF FullyConfirmed(i) THEN <<Ok(<<RespBufOk>>)>> ELSE <<>>

\* the step reads a frame (read() yielded Some or None)
FrameRead == nframes' = nframes + 1

\* C4 - pub/sub delivery: a message / smessage / pmessage frame whose channel
\* or pattern is a key of subscriptions is appended to the pub/sub sink
\* registered for that key, behind the frames already there, and reaches no
\* other pub/sub sink, no reply sink, no push sink and not pending_replies.
C4_PubSubDelivery ==
    [][(/\ FrameRead
        /\ last_frame'.kind \in MessageKinds
        /\ last_frame'.name \in DOMAIN subscriptions)
       => /\ pubsub_log' = [pubsub_log EXCEPT
                ![subscriptions[last_frame'.name].sink] = Append(@, last_frame')]
          /\ replies' = replies
          /\ push_log' = push_log
          /\ pending_replies' = pending_replies
          /\ messages_to_receive' = messages_to_receive]_vars

\* two messages reached one pub/sub sink in order while a batch was half answered
C4_Witness ==
    \E i \in Submitted :
        /\ Len(pubsub_log[i]) = 2
        /\ pubsub_log[i][1].n < pubsub_log[i][2].n
        /\ IsSome(pending_replies)
        /\ Len(messages_to_receive) > 0

\* the wire entry is CLIENT REPLY <mode>
IsClientReply(e, mode) ==
    e.name = "CLIENT" /\ Len(e.args) >= 2 /\ e.args[1] = "REPLY" /\ e.args[2] = mode
IsDirective(e) == \E mode \in {"ON", "OFF", "SKIP"} : IsClientReply(e, mode)

\* C5 - CLIENT REPLY SKIP accounting: of the commands sent after a CLIENT
\* REPLY SKIP, the first is not counted in num_commands and the second is
\* counted again, no CLIENT REPLY ON being sent.
C5_SkipAccounting ==
    \A p \in 1..(Len(wire) - 2) :
        (/\ IsClientReply(wire[p], "SKIP")
         /\ ~IsDirective(wire[p + 1]) /\ ~IsDirective(wire[p + 2]))
        => (~wire[p + 1].counted /\ wire[p + 2].counted)

\* the last CLIENT REPLY command among the wire positions 1..p (0: none)
LastDirective(p) ==
    LET ds == {q \in 1..p : IsDirective(wire[q])}
    IN  IF ds = {} THEN 0 ELSE CHOOSE q \in ds : \A d \in ds : d <= q

\* the wire positions of the latest transmission of message id
LastTransmission(id) ==
    {p \in WirePositions(id) :
        Cardinality({q \in WirePositions(id) : q >= p}) <= Len(submitted[id].cmds)}
CountedIn(ps) == Cardinality({p \in ps : wire[p].counted})

\* C6 - CLIENT REPLY OFF/ON accounting: a command handed to write_batch
\* contributes 0 to num_commands when the last CLIENT REPLY command handed
\* over up to and including it is OFF, and 1 when it is ON; an entry of
\* messages_to_receive was given the sum of its commands' contributions
\* (the head may have been decremented since), and no message whose sum is 0
\* is in messages_to_receive.
C6_OffOnAccounting ==
    /\ \A p \in 1..Len(wire) :
        LET q == LastDirective(p)
        IN  /\ (q > 0 /\ IsClientReply(wire[q], "OFF")) => ~wire[p].counted
            /\ (q > 0 /\ IsClientReply(wire[q], "ON")) => wire[p].counted
    /\ \A k \in 1..Len(messages_to_receive) :
        LET e == messages_to_receive[k]
            total == CountedIn(LastTransmission(e.message.id))
        IN  /\ total > 0
            /\ e.num_commands >= 1 /\ e.num_commands <= total
            /\ k > 1 => e.num_commands = total
    /\ \A i \in Submitted :
        (WirePositions(i) # {} /\ CountedIn(LastTransmission(i)) = 0)
        => \A k \in 1..Len(messages_to_receive) : messages_to_receive[k].message.id # i

\* OFF, an uncounted command, ON, then a counted command awaiting its reply
C6_Witness ==
    \E p, q, r, u \in 1..Len(wire) :
        /\ p < q /\ q < r /\ r < u
        /\ IsClientReply(wire[p], "OFF") /\ IsClientReply(wire[r], "ON")
        /\ ~IsDirective(wire[q]) /\ ~wire[q].counted
        /\ ~IsDirective(wire[u]) /\ wire[u].counted /\ wire[u].ok
        /\ \E k \in 1..Len(messages_to_receive) :
            /\ messages_to_receive[k].message.id = wire[u].id
            /\ messages_to_receive[k].num_commands = 2

\* read() yielded None in this step: reconnect ran
EofRead == nframes' = nframes + 1 /\ last_frame'.kind = "eof"

\* the entries of both queues, and the ids of their messages
Queued ==
    {[message |-> messages_to_receive[k].message, attempts |-> messages_to_receive[k].attempts] :
        k \in 1..Len(messages_to_receive)}
    \cup {messages_to_send[k] : k \in 1..Len(messages_to_send)}
QueuedIds == {e.message.id : e \in Queued}

\* the sink of message i has received Client("Disconnected from server")
GaveUp(i) == \E k \in 1..Len(replies[i]) : replies[i][k] = Disconnected

\* C7 - Reconnect retry cap: a disconnect that raises the attempts of a queued
\* message with retry_on_error to max_command_attempts or more removes the
\* message from its queue in that reconnect, sends Client("Disconnected from
\* server") to its sink and does not write it; a message whose sink received
\* that error is never written again.
C7_ReconnectRetryCap ==
    [][/\ EofRead =>
            \A e \in Queued :
                (e.message.retry_on_error /\ e.attempts + 1 >= max_command_attempts)
                => /\ e.message.id \notin QueuedIds'
                   /\ replies'[e.message.id] = Append(replies[e.message.id], Disconnected)
                   /\ WirePositions(e.message.id)' = WirePositions(e.message.id)
       /\ \A i \in Submitted :
            GaveUp(i) => WirePositions(i)' = WirePositions(i)]_vars

\* a retryable message was written as often as the cap allows, then given up
C7_Witness ==
    \E i \in Submitted :
        /\ submitted[i].retry_on_error /\ max_command_attempts > 1
        /\ Cardinality(WirePositions(i)) = max_command_attempts * Len(submitted[i].cmds)
        /\ GaveUp(i) /\ i \notin QueuedIds

\* C9 - On a disconnect every queued message with retry_on_error = false is
\* failed with Client("Disconnected from server"), leaves its queue and is
\* not written to the new connection, wherever it sits; the messages written
\* in the reconnect are retryable ones with attempts below the cap.
C9_NonRetryableFailed ==
    [][EofRead =>
        /\ \A e \in Queued :
            ~e.message.retry_on_error
            => /\ e.message.id \notin QueuedIds'
               /\ replies'[e.message.id] = Append(replies[e.message.id], Disconnected)
               /\ WirePositions(e.message.id)' = WirePositions(e.message.id)
        /\ \A p \in (Len(wire) + 1)..Len(wire') :
            wire'[p].id # 0
            => \E e \in Queued :
                /\ e.message.id = wire'[p].id
                /\ e.message.retry_on_error
                /\ e.attempts + 1 < max_command_attempts]_vars

\* the wire positions written in this step
NewPositions == (Len(wire) + 1)..Len(wire')

\* in this step the handler issued, on the new connection and before any
\* queued message, the subscribe command for name with this type
Resubscribed(type, name) ==
    \E p \in NewPositions :
        /\ wire'[p].id = 0 /\ wire'[p].conn = conn'
        /\ wire'[p].name = SubscribeCommand(type, name).name
        /\ wire'[p].args = <<name>>
        /\ \A q \in NewPositions : wire'[q].id # 0 => p < q

\* C8 - Auto-resubscribe ordering: a reconnect with auto_resubscribe = true
\* that reaches the reconnect notification has issued on the new connection
\* a subscribe command of the matching type for every name that was in
\* subscriptions or pending_subscriptions at the disconnect, each before any
\* message of messages_to_receive or messages_to_send is written.
C8_AutoResubscribeOrdering ==
    [][(EofRead /\ auto_resubscribe /\ notifications' = notifications + 1)
       => /\ \A name \in DOMAIN subscriptions :
                Resubscribed(subscriptions[name].type, name)
          /\ \A name \in DOMAIN pending_subscriptions :
                Resubscribed(pending_subscriptions[name].type, name)]_vars

\* a reconnect renewed a confirmed and a pending subscription, then wrote a
\* queued message
C8_Witness ==
    /\ last_frame.kind = "eof" /\ notifications = 1
    /\ \E p, q, r \in 1..Len(wire) :
        /\ p # q /\ p < r /\ q < r
        /\ wire[p].conn = conn /\ wire[p].id = 0 /\ wire[p].name = "SUBSCRIBE"
        /\ wire[q].conn = conn /\ wire[q].id = 0 /\ wire[q].name = "PSUBSCRIBE"
        /\ wire[r].conn = conn /\ wire[r].id # 0
        /\ IsSome(submitted[wire[r].id].pub_sub_senders)
        /\ replies[wire[r].id] = <<>>
        /\ \E i \in Submitted : i # wire[r].id /\ replies[i] = <<Ok(<<RespBufOk>>)>>

\* read() yielded Err(Retry(reasons)) in this step
RetryRead == nframes' = nframes + 1 /\ last_frame'.kind = "retry"

\* C10 - Retry resubmission: when the frame matched to the head message is
\* Err(Retry(reasons)), no sink receives anything in that step and the head
\* message goes to the back of the submission channel with the reasons
\* recorded; when a message carrying reasons is written, the reasons are
\* passed to write_batch; and what a sink receives is never a Retry error
\* and, when Ok, is made of replies to the message's latest transmission.
C10_RetryResubmission ==
    [][/\ (RetryRead /\ Len(messages_to_receive) > 0)
            => /\ replies' = replies
               /\ msg_channel' =
                    Append(msg_channel, accumulate(messages_to_receive[1].message, last_frame'))
               /\ messages_to_receive' = Tail(messages_to_receive)
       /\ \A k \in 1..Len(msg_channel) :
            (/\ IsSome(msg_channel[k].retry_reasons)
             /\ \E p \in NewPositions : wire'[p].id = msg_channel[k].id)
            => \A x \in 1..Len(Unwrap(msg_channel[k].retry_reasons)) :
                \E y \in 1..Len(write_reasons') :
                    write_reasons'[y] = Unwrap(msg_channel[k].retry_reasons)[x]
       /\ \A i \in Submitted :
            replies'[i] # replies[i]
            => LET r == replies'[i][Len(replies'[i])]
               IN  /\ r.e # "Retry"
                   /\ r.ok => \A j \in 1..Len(r.v) : r.v[j].n > LastWrittenAt(i)]_vars

\* C11 - A message is resubmitted after a Retry only when its retry_on_error
\* flag is true: the commands of a message with retry_on_error = false are
\* written to the transport at most once.
C11_RetryOnlyIfRetryable ==
    \A i \in Submitted :
        ~submitted[i].retry_on_error
        => Cardinality(WirePositions(i)) <= Len(submitted[i].cmds)

\* C12 - Fire-and-forget: a Single submission with no reply sink is never
\* added to messages_to_receive.
C12_FireAndForget ==
    \A k \in 1..Len(messages_to_receive) : HasSink(messages_to_receive[k].message)

\* handle_message ran in this step and took every message off the channel
ChannelDrained == Len(msg_channel) > 0 /\ msg_channel' = <<>>

\* C12 (amended) - a Single submission with no reply sink is written to the
\* transport and, replies being on, is added to messages_to_receive with
\* num_commands = 1; the frame matched to it removes it from
\* messages_to_receive and is delivered to no sink.
C12_FireAndForgetQueued ==
    [][/\ (ChannelDrained /\ is_reply_on)
            => \A k \in 1..Len(msg_channel) :
                ~HasSink(msg_channel[k])
                => /\ \E p \in NewPositions : wire'[p].id = msg_channel[k].id /\ wire'[p].ok
                   /\ \E j \in 1..Len(messages_to_receive') :
                        /\ messages_to_receive'[j].message.id = msg_channel[k].id
                        /\ messages_to_receive'[j].num_commands = 1
       /\ (/\ FrameRead /\ Len(messages_to_receive) > 0
           /\ ~HasSink(messages_to_receive[1].message))
            => /\ messages_to_receive' = Tail(messages_to_receive)
               /\ replies' = replies /\ pubsub_log' = pubsub_log /\ push_log' = push_log
               /\ pending_replies' = pending_replies]_vars

\* a message without sink was written and its reply consumed, and the
\* message submitted after it received the frame that follows
C12_Witness ==
    \E i \in Submitted :
        /\ ~HasSink(submitted[i]) /\ WirePositions(i) # {}
        /\ i \notin QueuedIds /\ replies[i] = <<>>
        /\ i + 1 \in Submitted /\ submitted[i + 1].kind = "Single"
        /\ Len(replies[i + 1]) = 1 /\ replies[i + 1][1].v[1].n = i + 1

\* write_batch failed in this step
WriteFailed == \E p \in NewPositions : ~wire'[p].ok

\* C13 - Write error: when write_batch fails in handle_message, every message
\* that was in messages_to_send and has a reply sink receives the write error
\* on its sink, messages_to_send becomes empty, and messages_to_receive, the
\* status and the subscription maps stay as they were when the write began.
C13_WriteError ==
    [][(ChannelDrained /\ WriteFailed)
       => LET before == drain_channel(Pack)
          IN  /\ \A k \in 1..Len(before.messages_to_send) :
                    LET m == before.messages_to_send[k].message
                    IN  HasSink(m) => replies'[m.id] = Append(replies[m.id], WriteError)
              /\ messages_to_send' = <<>>
              /\ messages_to_receive' = messages_to_receive
              /\ status' = before.status
              /\ subscriptions' = subscriptions
              /\ pending_subscriptions' = before.pending_subscriptions
              /\ pending_unsubscriptions' = before.pending_unsubscriptions]_vars

\* both queues as one sequence of [message, attempts], messages_to_receive first
QueuedInOrder ==
    [k \in 1..Len(messages_to_receive) |->
        [message |-> messages_to_receive[k].message,
         attempts |-> messages_to_receive[k].attempts]]
    \o messages_to_send

\* the commands of the messages of q, in order, as <<id, name>>
RECURSIVE CommandsOf(_)
CommandsOf(q) ==
    IF q = <<>> THEN <<>>
    ELSE [j \in 1..Len(Head(q).message.cmds) |->
            <<Head(q).message.id, Head(q).message.cmds[j].name>>]
         \o CommandsOf(Tail(q))

\* C14 - Reconnect preserves submission order: a reconnect that succeeds
\* writes the surviving messages to the new connection in queue order, the
\* survivors of messages_to_receive first, those of messages_to_send after
\* them, and each survivor keeps its attempts counter (raised by one in this
\* reconnect when the message has retry_on_error).
C14_ReconnectKeepsOrder ==
    [][(EofRead /\ notifications' = notifications + 1)
       => LET all == QueuedInOrder
              survivors == SelectSeq(all, LAMBDA e : replies'[e.message.id] = replies[e.message.id])
              written == SelectSeq(SubSeq(wire', Len(wire) + 1, Len(wire')), LAMBDA w : w.id # 0)
          IN  /\ [p \in 1..Len(written) |-> <<written[p].id, written[p].name>>]
                    = CommandsOf(survivors)
              /\ \A p \in 1..Len(written) : written[p].conn = conn' /\ written[p].ok
              /\ Len(messages_to_receive') = Len(survivors)
              /\ \A k \in 1..Len(survivors) :
                    /\ messages_to_receive'[k].message.id = survivors[k].message.id
                    /\ messages_to_receive'[k].attempts =
                        survivors[k].attempts
                        + (IF survivors[k].message.retry_on_error THEN 1 ELSE 0)]_vars

\* after a failed and a successful reconnect a message was written for the
\* second time and behind it, for the first time, a message that was
\* submitted while the handler was Disconnected
C14_Witness ==
    /\ last_frame.kind = "eof" /\ notifications = 1 /\ disconnects = 2
    /\ Len(messages_to_receive) = 2
    /\ messages_to_receive[1].attempts = 2
    /\ messages_to_receive[2].attempts = 1
    /\ \A p \in WirePositions(messages_to_receive[2].message.id) : wire[p].conn = conn
    /\ \E p \in WirePositions(messages_to_receive[1].message.id) : wire[p].conn = 1

\* read() yielded a monitor log line in this step
MonitorLineRead == FrameRead /\ last_frame'.kind = "monitor"

\* C15 - Monitor stream: a monitor log line read while the status is not yet
\* back to Connected is sent to the registered push sink, and no monitor log
\* line is ever delivered to a reply sink or consumes an entry of
\* messages_to_receive, also after RESET was submitted with other replies
\* outstanding.
C15_MonitorStream ==
    [][MonitorLineRead
       => /\ status # "Connected"
            => /\ IsSome(push_sender)
               /\ push_log' = [push_log EXCEPT ![Unwrap(push_sender)] = Append(@, last_frame')]
          /\ replies' = replies
          /\ messages_to_receive' = messages_to_receive
          /\ pending_replies' = pending_replies]_vars

\* message i is an unsubscribe message that handle_message queued in
\* Subscribed status
UnsubscribedInSubscribed(i) ==
    /\ submitted[i].cmds[1].name \in UnsubscribeNames
    /\ enqueued_in[i] = "Subscribed"

\* the step reads an unsubscribe / punsubscribe / sunsubscribe confirmation
UnsubscribeConfirmed == FrameRead /\ last_frame'.kind \in UnsubscribeKinds

\* C16 - unsubscribe confirmation: a confirmation removes its name from
\* subscriptions, and the reply sink of an unsubscribe message queued in
\* Subscribed status holds one synthetic OK exactly when the server has
\* confirmed every name of that message, and nothing while fewer are
\* confirmed.
C16_UnsubscribeConfirmation ==
    [][/\ UnsubscribeConfirmed => last_frame'.name \notin DOMAIN subscriptions'
       /\ \A i \in Submitted' :
            UnsubscribedInSubscribed(i)' =>
                replies'[i] = IF FullyConfirmed(i)' THEN <<Ok(<<RespBufOk>>)>> ELSE <<>>]_vars

\* the step reads a message / smessage / pmessage frame in Subscribing or
\* Subscribed status whose channel or pattern is no key of subscriptions
UnknownChannelRead ==
    /\ FrameRead
    /\ last_frame'.kind \in MessageKinds
    /\ status \in {"Subscribing", "Subscribed"}
    /\ last_frame'.name \notin DOMAIN subscriptions

\* C17 - unknown pub/sub channel: a message / smessage / pmessage frame with
\* no entry in subscriptions, read in Subscribing or Subscribed status, goes
\* to no sink and leaves messages_to_receive, pending_replies, subscriptions,
\* the pending maps and the connection as they were.
C17_UnknownChannelDropped ==
    [][UnknownChannelRead
       => /\ replies' = replies /\ pubsub_log' = pubsub_log /\ push_log' = push_log
          /\ notifications' = notifications
          /\ messages_to_receive' = messages_to_receive
          /\ pending_replies' = pending_replies
          /\ subscriptions' = subscriptions
          /\ pending_subscriptions' = pending_subscriptions
          /\ pending_unsubscriptions' = pending_unsubscriptions
          /\ conn' = conn /\ link_up' = link_up /\ wire' = wire]_vars

C17_Witness ==
    /\ last_frame.kind \in MessageKinds
    /\ last_frame.name \notin DOMAIN subscriptions
    /\ status = "Subscribed"
    /\ Len(messages_to_receive) > 0

\* the same frame read in Subscribing status: it is the first frame after
\* the write of a subscribe message that was queued in Connected status
C17_WitnessSubscribing ==
    /\ C17_Witness
    /\ last_frame.n = nframes
    /\ \E p \in DOMAIN wire :
        /\ wire[p].name = "SUBSCRIBE" /\ wire[p].at = nframes - 1
        /\ enqueued_in[wire[p].id] = "Connected"
        /\ \A q \in DOMAIN wire : wire[q].at = nframes - 1 => q >= p


\* the handler's own state, and what has reached the sinks
HandlerView(s) ==
    [status |-> s.status, messages_to_send |-> s.messages_to_send,
     messages_to_receive |-> s.messages_to_receive, pending_replies |-> s.pending_replies,
     subscriptions |-> s.subscriptions,
     pending_subscriptions |-> s.pending_subscriptions,
     pending_unsubscriptions |-> s.pending_unsubscriptions,
     push_sender |-> s.push_sender, is_reply_on |-> s.is_reply_on,
     msg_channel |-> s.msg_channel, running |-> s.running]
SinkView(s) == <<s.replies, s.pubsub_log, s.push_log>>

\* what handle_result would leave for the frame of this step if every
\* receiver were alive
WithReceivers == handle_result([Pack EXCEPT !.dropped = {}], last_frame')

\* the step handles a frame whose delivery failed because the receiver of
\* its sink was dropped
DeliveryFailed ==
    /\ FrameRead /\ ~EofRead
    /\ SinkView(WithReceivers) # SinkView(Pack')

\* C18 - dropped receivers are tolerated: when a result, an error or a push
\* frame is delivered to a sink whose receiver was dropped, the handler keeps
\* running and its state after the delivery is the state it would have with
\* the receiver alive.
C18_DroppedReceivers ==
    [][DeliveryFailed
       => /\ running' = "running"
          /\ HandlerView(Pack') = HandlerView(WithReceivers)]_vars

\* a pub/sub frame and a monitor line were handled after their receiver was dropped
C18_WitnessPubSub ==
    /\ running = "running" /\ last_frame.kind \in MessageKinds
    /\ last_frame.name \in DOMAIN subscriptions
    /\ <<"pubsub", subscriptions[last_frame.name].sink>> \in dropped
    /\ pubsub_log[subscriptions[last_frame.name].sink] = <<>>
C18_WitnessPush ==
    /\ running = "running" /\ last_frame.kind = "monitor" /\ status = "Monitor"
    /\ IsSome(push_sender) /\ <<"push", Unwrap(push_sender)>> \in dropped
    /\ push_log[Unwrap(push_sender)] = <<>>

C18_Witness ==
    /\ running = "running"
    /\ \E i \in Submitted :
        /\ <<"reply", i>> \in dropped /\ HasSink(submitted[i])
        /\ WirePositions(i) # {} /\ i \notin QueuedIds
        /\ \A k \in 1..Len(msg_channel) : msg_channel[k].id # i
        /\ replies[i] = <<>>

\* handle_message takes the last message out of the submission channel after
\* every caller has dropped its sender: the callers' side of the channel has
\* come to its end
CallersStreamEnded == ChannelDrained /\ ~callers_hold /\ running = "running"

ListedChanges ==
    {<<"Connected", "Subscribing">>, <<"Connected", "EnteringMonitor">>,
     <<"Subscribing", "Subscribed">>, <<"Subscribing", "Connected">>,
     <<"Subscribed", "Connected">>, <<"EnteringMonitor", "Monitor">>,
     <<"Monitor", "LeavingMonitor">>, <<"LeavingMonitor", "Connected">>,
     <<"Disconnected", "Connected">>, <<"Disconnected", "Subscribed">>,
     <<"Disconnected", "Monitor">>}
    \cup {<<st, "Disconnected">> : st \in {"Connected", "Subscribing", "Subscribed",
                                         "EnteringMonitor", "Monitor", "LeavingMonitor"}}

\* the values status takes in this step, the value before the step first:
\* reconnect assigns Disconnected and then, at its end, the new status;
\* handle_message assigns once per command that changes the protocol; a
\* frame assigns at most once
StatusTrail ==
    IF EofRead THEN <<status, "Disconnected", status'>>
    ELSE IF ChannelDrained THEN <<status>> \o drain_assignments(Pack)
    ELSE <<status, status'>>

\* C20 - status changes: every pair of consecutive values of status is a
\* change the specification lists (or no change).
C20_StatusChanges ==
    [][\A k \in 1..(Len(StatusTrail) - 1) :
          \/ StatusTrail[k] = StatusTrail[k + 1]
          \/ <<StatusTrail[k], StatusTrail[k + 1]>> \in ListedChanges]_vars

\* the same, for the steps that do not queue one message with commands of
\* both protocols
C20_StatusChangesApart ==
    [][(~ChannelDrained \/ status' # "EnteringMonitor"
            \/ \A k \in 1..Len(msg_channel) : msg_channel[k].kind # "Batch")
       => \A k \in 1..(Len(StatusTrail) - 1) :
            \/ StatusTrail[k] = StatusTrail[k + 1]
            \/ <<StatusTrail[k], StatusTrail[k + 1]>> \in ListedChanges]_vars

\* C21 - leaving Subscribing: status goes from Subscribing to Subscribed only
\* on a subscribe confirmation, and the reply (or error) of another command,
\* pipelined before the subscribe command, leaves status Subscribing.
C21_SubscribingLeaves ==
    [][(FrameRead /\ ~EofRead /\ status = "Subscribing")
       => /\ status' = "Subscribed" => last_frame'.kind \in SubscribeKinds
          /\ last_frame'.kind \notin SubscribeKinds => status' = "Subscribing"]_vars

\* the step reads, in Subscribed status, the unsubscribe confirmation that
\* removes the last entry of subscriptions
LastSubscriptionEnds ==
    /\ UnsubscribeConfirmed /\ status = "Subscribed"
    /\ DOMAIN subscriptions # {} /\ DOMAIN subscriptions' = {}

\* C22 - as the specification states it: the status returns to Connected
\* when an unsubscribe confirmation removes the last entry of subscriptions.
C22_ReturnsToConnected ==
    [][LastSubscriptionEnds => status' = "Connected"]_vars

\* C22 - as the code has it: the status stays Subscribed when an unsubscribe
\* confirmation removes the last entry of subscriptions.
C22_StaysSubscribed ==
    [][LastSubscriptionEnds => status' = "Subscribed"]_vars

C22_Witness ==
    /\ last_frame.kind \in UnsubscribeKinds /\ last_frame.n = nframes
    /\ DOMAIN subscriptions = {} /\ srv_subs = {}
    /\ status = "Subscribed"
    /\ \E i \in Submitted : submitted[i].cmds[1].name \in UnsubscribeNames
                            /\ replies[i] = <<Ok(<<RespBufOk>>)>>

\* C23 - entering Monitor: a frame read in EnteringMonitor status puts the
\* handler in Monitor status only if it is an OK (non-error) frame.
C23_MonitorOnlyOnOk ==
    [][(FrameRead /\ ~EofRead /\ status = "EnteringMonitor" /\ status' = "Monitor")
       => is_ok(last_frame')]_vars


\* reconnect ran to its end in this step: Connection::reconnect() and the
\* automatic steps succeeded, the notification was broadcast, the queued
\* messages were rewritten and the final status was assigned
ReconnectCompleted == EofRead /\ notifications' = notifications + 1

\* C24 - status after a reconnect: when reconnect runs to its end, status is
\* Subscribed if subscriptions is non-empty, otherwise Monitor if the old
\* status was Monitor or EnteringMonitor and push_sender is set, otherwise
\* Connected; it is never left Disconnected.
C24_ReconnectedStatus ==
    [][ReconnectCompleted
       => status' = IF DOMAIN subscriptions' # {} THEN "Subscribed"
                    ELSE IF status \in {"Monitor", "EnteringMonitor"} /\ IsSome(push_sender')
                    THEN "Monitor"
                    ELSE "Connected"]_vars

\* Connection::reconnect() failed in this step: the handler is still on the
\* connection it had
ConnectFailed == EofRead /\ conn' = conn

IdsOf(q) == [k \in 1..Len(q) |-> q[k].message.id]

\* q2 is what is left of q once entries were popped from its head, and every
\* entry of q that the retry policy keeps is among them
Retained(q, q2) ==
    /\ \E k \in 0..Len(q) : IdsOf(q2) = SubSeq(IdsOf(q), k + 1, Len(q))
    /\ \A k \in 1..Len(q) :
          (q[k].message.retry_on_error /\ q[k].attempts + 1 < max_command_attempts)
          => \E j \in 1..Len(q2) : q2[j].message.id = q[k].message.id

\* the handler waits for a reconnect that works
AwaitingReconnect == status = "Disconnected" /\ ~link_up

\* C25 - failed reconnect: when Connection::reconnect() fails, the attempt
\* ends with status Disconnected, nothing written, no notification broadcast
\* and every message the retry policy did not fail still in its queue at the
\* same relative position; from then on, until another reconnect attempt,
\* status stays Disconnected and submitted messages are appended to
\* messages_to_send without being written.
C25_FailedReconnect ==
    [][/\ ConnectFailed
          => /\ status' = "Disconnected" /\ ~link_up'
             /\ wire' = wire
             /\ notifications' = notifications
             /\ Retained(messages_to_send, messages_to_send')
             /\ Retained(messages_to_receive, messages_to_receive')
       /\ (AwaitingReconnect /\ ~EofRead)
          => /\ status' = "Disconnected" /\ ~link_up'
             /\ wire' = wire
             /\ messages_to_receive' = messages_to_receive
             /\ IdsOf(messages_to_send')
                  = IdsOf(messages_to_send)
                    \o (IF ChannelDrained
                        THEN [k \in 1..Len(msg_channel) |-> msg_channel[k].id]
                        ELSE <<>>)]_vars

\* a reconnect failed with two messages in flight: the first, not to be
\* retried, was failed and the second kept; a message submitted afterwards
\* is queued behind it, unwritten
C25_Witness ==
    /\ AwaitingReconnect /\ conn = 1 /\ disconnects > 0
    /\ Len(messages_to_receive) = 1
    /\ \E i \in Submitted : i < messages_to_receive[1].message.id /\ GaveUp(i)
    /\ Len(messages_to_send) > 0
    /\ \A k \in 1..Len(messages_to_send) : WirePositions(messages_to_send[k].message.id) = {}

\* the reconnect attempt of this step left the handler on a new, working
\* connection: Connection::reconnect() and the enabled automatic steps succeeded
AttemptSucceeded == EofRead /\ conn' # conn /\ link_up'

\* the positions of the wire log written in this step
Written == (Len(wire) + 1)..Len(wire')

\* C26 - reconnect notification: a reconnect attempt broadcasts exactly one
\* notification when Connection::reconnect() and the enabled auto-resubscribe
\* and auto-remonitor steps all succeed, and none when one of them fails; the
\* commands of those steps are written before the broadcast and the queued
\* messages are rewritten after it; nothing else broadcasts.
C26_ReconnectNotification ==
    [][/\ ~EofRead => notifications' = notifications
       /\ EofRead
          => /\ notifications' = notifications + (IF AttemptSucceeded THEN 1 ELSE 0)
             /\ \A p \in Written :
                   wire'[p].notified = IF wire'[p].id = 0 THEN notifications
                                       ELSE notifications + 1]_vars

\* a reconnect renewed a subscription, broadcast, then rewrote a queued message
C26_Witness ==
    /\ last_frame.kind = "eof" /\ notifications = 1
    /\ \E p \in 1..(Len(wire) - 1) :
          /\ wire[p].conn = conn /\ wire[p].id = 0 /\ wire[p].notified = 0
          /\ wire[p + 1].conn = conn /\ wire[p + 1].id # 0 /\ wire[p + 1].notified = 1

\* message i is an unsubscribe with no arguments that handle_message queued
\* in Subscribed status
UnsubscribesAll(i) ==
    /\ submitted[i].kind = "Single"
    /\ submitted[i].cmds[1].name \in UnsubscribeNames
    /\ submitted[i].cmds[1].args = <<>>
    /\ enqueued_in[i] = "Subscribed"

\* message i was written, no subscribe command was written after it, and the
\* server has sent every frame it owed
Settled(i) ==
    /\ WirePositions(i) # {}
    /\ \A p \in WirePositions(i), q \in 1..Len(wire) :
          q > p => wire[q].name \notin SubscribeNames
    /\ srv_out = <<>>

\* C27 - empty-argument unsubscribe: once the server has confirmed every
\* entry an argument-less unsubscribe queued in Subscribed status was aimed
\* at, those entries are gone from subscriptions and the sink of the
\* unsubscribe message holds exactly one OK.
C27_UnsubscribeAll ==
    \A i \in Submitted :
        (UnsubscribesAll(i) /\ Settled(i))
        => /\ \A n \in DOMAIN subscriptions :
                 subscriptions[n].type # SubscriptionType(submitted[i].cmds[1].name)
           /\ replies[i] = <<Ok(<<RespBufOk>>)>>

\* the step reads a frame in Connected status
ReadInConnected == FrameRead /\ ~EofRead /\ status = "Connected"

\* the frame is forwarded to the registered push sender and to nothing else
Forwarded ==
    /\ push_log' = [push_log EXCEPT ![Unwrap(push_sender)] = Append(@, last_frame')]
    /\ replies' = replies /\ pubsub_log' = pubsub_log
    /\ messages_to_receive' = messages_to_receive
    /\ pending_replies' = pending_replies

\* ordinary delivery: the frame is charged to the head of messages_to_receive,
\* which is popped or has one reply less to wait for
ChargedToHead ==
    /\ push_log' = push_log
    /\ messages_to_receive # <<>>
       => \/ /\ Len(messages_to_receive') = Len(messages_to_receive)
             /\ Tail(messages_to_receive') = Tail(messages_to_receive)
             /\ messages_to_receive'[1].num_commands = messages_to_receive[1].num_commands - 1
          \/ messages_to_receive' = Tail(messages_to_receive)

\* the frame reaches no sink and no queue
DroppedFrame ==
    /\ replies' = replies /\ pubsub_log' = pubsub_log /\ push_log' = push_log
    /\ messages_to_receive' = messages_to_receive
    /\ messages_to_send' = messages_to_send
    /\ pending_replies' = pending_replies

\* C28 - frames in Connected status: a push frame is forwarded to push_sender
\* when one is set, leaving messages_to_receive unchanged; every other frame,
\* a push frame received with no push_sender included, is delivered to the
\* head of messages_to_receive.
C28_PushOrOrdinary ==
    [][ReadInConnected
       => IF is_push_message(last_frame') /\ IsSome(push_sender) THEN Forwarded
          ELSE ChargedToHead]_vars

\* C28 (amended) - frames in Connected status: a push frame is forwarded to
\* push_sender when one is set, leaving messages_to_receive unchanged; a push
\* frame received with no push_sender is dropped, reaching no sink and
\* leaving the queues unchanged; every other frame is delivered to the head
\* of messages_to_receive.
C28_PushOrDropped ==
    [][ReadInConnected
       => IF is_push_message(last_frame')
          THEN IF IsSome(push_sender) THEN Forwarded ELSE DroppedFrame
          ELSE ChargedToHead]_vars

\* a push frame was read in Connected status with no push sender while a
\* message waited for its reply: the message still waits
C28_Witness ==
    /\ is_push_message(last_frame) /\ last_frame.n = nframes
    /\ status = "Connected" /\ push_sender = None
    /\ messages_to_receive # <<>>
    /\ \A i \in Submitted : replies[i] = <<>>

\* the sum of num_commands over the entries 1..k of messages_to_receive
RECURSIVE RepliesExpected(_)
RepliesExpected(k) ==
    IF k = 0 THEN 0 ELSE RepliesExpected(k - 1) + messages_to_receive[k].num_commands

\* the ordinary reply frames the server still owes on this connection
RepliesOwed == Len(SelectSeq(srv_out, LAMBDA f : f.kind = "reply"))

\* C29 - reply accounting: whenever the network loop waits for its next event
\* with the connection up, the sum of num_commands over messages_to_receive
\* equals the number of ordinary reply frames the server still owes for the
\* commands written so far.
C29_ReplyAccounting ==
    (running = "running" /\ link_up)
    => RepliesExpected(Len(messages_to_receive)) = RepliesOwed

\* the names the server holds a subscription for on the current connection
ServerSubscribed == {sub[2] : sub \in srv_subs}

\* every confirmation the server sent on the current connection has been read
AllConfirmationsRead == running = "running" /\ link_up /\ srv_out = <<>>

\* C30 - subscription registry: a name is a key of subscriptions if and only
\* if the server has confirmed a subscribe for it on the current connection
\* and has not since confirmed the matching unsubscribe, also after
\* reconnects, with auto_resubscribe on or off. Compared whenever no
\* confirmation is in flight.
C30_SubscriptionRegistry ==
    AllConfirmationsRead => DOMAIN subscriptions = ServerSubscribed

\* C31 - is_reply_on mirrors the server: whenever the handler is left on a
\* working connection, after a write or a reconnect, is_reply_on is true
\* exactly when the server would reply to the next command written; a write
\* that fails leaves is_reply_on as it was.
C31_ReplyStateMirrored ==
    [][/\ (running' = "running" /\ link_up') => (is_reply_on' <=> srv_reply' = "on")
       /\ WriteFailed => is_reply_on' = is_reply_on]_vars

\* the step reads Err(Retry) while the head of messages_to_receive is a batch
\* that still expects more than one reply
RetryMidBatch ==
    /\ FrameRead /\ last_frame'.kind = "retry"
    /\ status = "Connected"
    /\ messages_to_receive # <<>>
    /\ messages_to_receive[1].message.kind = "Batch"
    /\ messages_to_receive[1].num_commands > 1

\* C32 - mid-batch Retry: Err(Retry(reasons)) received while the head of
\* messages_to_receive is a batch expecting more than one reply adds the
\* reasons to that message's retry_reasons, leaves its num_commands as it
\* was and leaves the message at the head of messages_to_receive.
C32_MidBatchRetry ==
    [][RetryMidBatch
       => /\ messages_to_receive' # <<>>
          /\ messages_to_receive'[1] = [messages_to_receive[1] EXCEPT
                !.message = accumulate(@, last_frame')]
          /\ Tail(messages_to_receive') = Tail(messages_to_receive)]_vars

\* the messages handle_message takes from the channel in this step that a
\* Retry signal put there: they carry the reasons of the signal
Resubmitted ==
    {msg_channel[k].id : k \in {j \in 1..Len(msg_channel) : IsSome(msg_channel[j].retry_reasons)}}

\* C33 - attempts on resubmission: a message resubmitted because of a Retry
\* signal re-enters the queues with an attempts value strictly greater than
\* the one it had in messages_to_receive, hence of at least 1.
C33_AttemptsIncrease ==
    [][ChannelDrained
       => \A e \in Queued' : e.message.id \in Resubmitted => e.attempts >= 1]_vars

\* C34 - the assertion of receive_result: no frame of a protocol-conforming
\* server makes ordinary delivery run with messages_to_receive empty and a
\* result that is not an error; reading a frame never ends the task by a
\* failed assertion.
C34_AssertionHolds ==
    [][(FrameRead /\ ~EofRead /\ running = "running") => running' # "panicked"]_vars

\* the handler was in Monitor or EnteringMonitor status when the link dropped
\* and holds a push sender
WasMonitoring ==
    /\ (IF status = "Disconnected" THEN link_lost_in ELSE status)
          \in {"Monitor", "EnteringMonitor"}
    /\ IsSome(push_sender')

\* MONITOR was issued by the handler itself in this step
MonitorReissued == \E p \in Written : wire'[p].id = 0 /\ wire'[p].name = "MONITOR"

\* C35 - remonitor after failed attempts: with auto_remonitor set, the
\* reconnect attempt that succeeds after the link dropped in monitor mode
\* reissues MONITOR on the new connection and restores status Monitor,
\* however many attempts failed before it.
C35_RemonitorAfterFailures ==
    [][(ReconnectCompleted /\ auto_remonitor /\ WasMonitoring)
       => /\ MonitorReissued
          /\ DOMAIN subscriptions' = {} => status' = "Monitor"]_vars

\* C36 - messages_to_send between events: whenever the network loop waits
\* for its next event, messages_to_send is non-empty only if status is
\* Disconnected; send_messages empties it whether the write succeeds or fails.
C36_SendQueueEmptied ==
    messages_to_send # <<>> => status = "Disconnected"

\* a write failed outside a reconnect and the queue was emptied all the same
C36_Witness ==
    /\ status # "Disconnected" /\ ~link_up /\ last_frame.kind # "eof"
    /\ messages_to_send = <<>>
    /\ \E p \in 1..Len(wire) : ~wire[p].ok

\* the ids of the messages held by the channel and by the two queues, in order
Held ==
    [k \in 1..Len(msg_channel) |-> msg_channel[k].id]
    \o IdsOf(messages_to_send) \o IdsOf(messages_to_receive)

PendingLen == IF IsSome(pending_replies) THEN Len(Unwrap(pending_replies)) ELSE 0

\* the number of reply-counted commands of message m when it is written with
\* replies on
ReplyCounted(m) ==
    count_commands(m.cmds, 1, [on |-> TRUE, n |-> 0, flags |-> <<>>]).n

\* C38 - pending_replies consistency: whenever the network loop waits for
\* its next event, pending_replies is empty, unless the head of
\* messages_to_receive is a batch and the replies accumulated plus the
\* replies the head still expects make up the reply-counted commands of that
\* batch; so it is empty once an error or a Retry has removed a batch and
\* once a reconnect has queued it again.
C38_PendingRepliesConsistent ==
    \/ PendingLen = 0
    \/ /\ messages_to_receive # <<>>
       /\ Head(messages_to_receive).message.kind = "Batch"
       /\ PendingLen + Head(messages_to_receive).num_commands
            = ReplyCounted(Head(messages_to_receive).message)

\* the names for which the handler itself issued a subscribe command on the
\* new connection in this step
IssuedNames ==
    {wire'[p].args[1] :
        p \in {q \in NewPositions :
                 /\ wire'[q].id = 0 /\ wire'[q].conn = conn'
                 /\ wire'[q].name \in {"SUBSCRIBE", "PSUBSCRIBE", "SSUBSCRIBE"}}}

\* the names that await the confirmation of an unsubscribe
PendingUnsubscribed ==
    UNION {DOMAIN pending_unsubscriptions[k] : k \in 1..Len(pending_unsubscriptions)}

\* C39 - after auto_resubscribe has completed successfully, the keys of
\* subscriptions are exactly the names for which the handler issued a
\* subscribe command on the new connection; a name with a pending
\* unsubscription at the disconnect is not subscribed on the new connection
\* unless it is still a key of subscriptions.
C39_ResubscribedSetMatches ==
    [][(ReconnectCompleted /\ auto_resubscribe)
       => /\ DOMAIN subscriptions' = IssuedNames
          /\ \A name \in PendingUnsubscribed :
                name \in IssuedNames => name \in DOMAIN subscriptions']_vars

\* neither arm of the select! in network_loop is ready: the submission
\* channel holds no message and is not closed, and the server owes no frame
LoopIdle == msg_channel = <<>> /\ ~end_of_stream(Pack) /\ srv_out = <<>>

\* C40 - termination: once the callers have dropped every sender of the
\* submission channel they held, the network loop sees the channel closed
\* and the handler task ends: it is never left waiting for a message or
\* a frame that cannot come, in a loop that has not ended.
C40_LoopEndsAfterSendersDropped ==
    (~callers_hold /\ LoopIdle) => running = "ended"
====
